---- MODULE Spec2Model ----
(***************************************************************************)
(* Model of src/app.py: the article text-mining pipeline (heuristic        *)
(* extractors, gene/variant annotator, association extractor, record       *)
(* assembler) and the "Extract & Append" handler of the GUI.               *)
(*                                                                         *)
(* A Python str is modelled as a sequence of one-character strings, so     *)
(* that the regular expressions of the source are matched character by     *)
(* character.  The non-ASCII characters the source writes are the named    *)
(* symbols Arrow, UpArrow, DownArrow and PlusMinus.                        *)
(***************************************************************************)
EXTENDS Integers, Sequences, FiniteSets, TLC

VARIABLES
    parts,          \* the phrases the input text is made of
    text,           \* the text handed to an extractor; the abstract, for parse_article
    soup,           \* the parsed page handed to extract_basic_metadata
    pc,             \* the set of calls that have returned
    meta,           \* the mapping returned by extract_basic_metadata
    rsids,          \* extract_rsids_and_genes_with_annotations: rsID list
    gene_map,       \*   rsID -> [gene, annot]
    genes_ordered,  \*   gene names by first appearance index
    row,            \* the row returned by parse_article
    sample_size,    \* result of find_sample_size
    study_design,   \* result of find_study_design
    region,         \* result of find_region
    or_str,         \* arguments of infer_effect_direction
    p_str,
    effect,         \* result of infer_effect_direction
    started,        \* App.__init__ has run
    app_enabled,    \* App.app_enabled
    excel_path,     \* App.excel_path
    url_var,        \* App.url_var
    status,         \* text of the App.status label
    files,          \* the file system: path -> file
    log,            \* what the latest handler call did, in order
    file0,          \* the file system at start (history variable)
    startup_env,    \* what the status check at startup found (history variable)
    checked_env,    \* what the status check of the latest on_extract found (history variable)
    appended        \* the rows written by the successful appends (history variable)

textVars == <<parts, text, soup>>
rowVars == <<meta, rsids, gene_map, genes_ordered, row>>
heurVars == <<sample_size, study_design, region>>
effectVars == <<or_str, p_str, effect>>
appVars == <<started, app_enabled, excel_path, url_var, status, files, log, file0, appended,
            startup_env, checked_env>>
vars == <<textVars, pc, rowVars, heurVars, effectVars, appVars>>

(***************************************************************************)
(* Characters and str methods                                              *)
(***************************************************************************)
Arrow == "->"
UpArrow == "^"
DownArrow == "v"
PlusMinus == "+-"

Digits == {"0", "1", "2", "3", "4", "5", "6", "7", "8", "9"}
UpperSeq == <<"A", "B", "C", "D", "E", "F", "G", "H", "I", "J", "K", "L", "M", "N", "O", "P", "Q", "R", "S", "T", "U", "V", "W", "X", "Y", "Z">>
LowerSeq == <<"a", "b", "c", "d", "e", "f", "g", "h", "i", "j", "k", "l", "m", "n", "o", "p", "q", "r", "s", "t", "u", "v", "w", "x", "y", "z">>
UpperCase == {UpperSeq[i] : i \in 1..Len(UpperSeq)}
LowerCase == {LowerSeq[i] : i \in 1..Len(LowerSeq)}
Whitespace == {" ", "\t", "\n"}

\* the value None, and its rendering by an f-string
None == <<"None">>
NoneText == <<"N", "o", "n", "e">>
Str(v) == IF v = None THEN NoneText ELSE v

AlnumChars == Digits \cup UpperCase \cup LowerCase
WordChars == AlnumChars \cup {"_"}
IsDigit(c) == c \in Digits
IsAlnum(c) == c \in AlnumChars
IsWord(c) == c \in WordChars
IsSpace(c) == c \in Whitespace

\* str.lower() of one character
LowerOf == [c \in UpperCase |-> LowerSeq[CHOOSE i \in 1..Len(UpperSeq) : UpperSeq[i] = c]]
LowerChar(c) == IF c \in UpperCase THEN LowerOf[c] ELSE c
Lower(s) == [i \in 1..Len(s) |-> LowerChar(s[i])]

Min(S) == CHOOSE x \in S : \A y \in S : x <= y
Max(S) == CHOOSE x \in S : \A y \in S : x >= y
Range(s) == {s[i] : i \in 1..Len(s)}

\* s[i:] and s[i:j] of Python, with 1-based inclusive positions
From(s, i) == SubSeq(s, i, Len(s))

MatchAt(pat, s, i) ==
    /\ i >= 1
    /\ i + Len(pat) - 1 <= Len(s)
    /\ \A k \in 1..Len(pat) : s[i + k - 1] = pat[k]
MatchAtI(pat, s, i) ==
    /\ i >= 1
    /\ i + Len(pat) - 1 <= Len(s)
    /\ \A k \in 1..Len(pat) : LowerChar(s[i + k - 1]) = LowerChar(pat[k])
Occurrences(pat, s) == {i \in 1..Len(s) : MatchAt(pat, s, i)}
OccurrencesI(pat, s) == Occurrences(Lower(pat), Lower(s))
Contains(pat, s) == \E i \in 1..(Len(s) - Len(pat) + 1) : MatchAt(pat, s, i)
StartsWith(s, pat) == MatchAt(pat, s, 1)

\* str.strip()
Strip(s) ==
    LET keep == {i \in 1..Len(s) : ~IsSpace(s[i])}
    IN  IF keep = {} THEN <<>> ELSE SubSeq(s, Min(keep), Max(keep))

\* sep.join(items)
RECURSIVE Join(_, _)
Join(items, sep) ==
    IF Len(items) = 0 THEN <<>>
    ELSE IF Len(items) = 1 THEN items[1]
    ELSE items[1] \o sep \o Join(Tail(items), sep)

\* int(digits) and str(n)
DigitSeq == <<"0", "1", "2", "3", "4", "5", "6", "7", "8", "9">>
DigitValOf == [c \in Digits |-> (CHOOSE i \in 1..Len(DigitSeq) : DigitSeq[i] = c) - 1]
DigitVal(c) == DigitValOf[c]
RECURSIVE ToInt(_)
ToInt(ds) ==
    IF Len(ds) = 0 THEN 0
    ELSE 10 * ToInt(SubSeq(ds, 1, Len(ds) - 1)) + DigitVal(ds[Len(ds)])
RECURSIVE IntToStr(_)
IntToStr(n) ==
    IF n < 10 THEN <<DigitSeq[n + 1]>>
    ELSE IntToStr(n \div 10) \o <<DigitSeq[(n % 10) + 1]>>

\* regex helpers: the end of the longest run of characters of a class that
\* starts at position i (i - 1 when the run is empty)
RECURSIVE DigitRunEnd(_, _)
DigitRunEnd(s, i) ==
    IF i <= Len(s) /\ IsDigit(s[i]) THEN DigitRunEnd(s, i + 1) ELSE i - 1
RECURSIVE SpaceRunEnd(_, _)
SpaceRunEnd(s, i) ==
    IF i <= Len(s) /\ IsSpace(s[i]) THEN SpaceRunEnd(s, i + 1) ELSE i - 1

\* re.search: At(s, i) is the match tried at position i, a tuple that starts with 0
\* when there is none; the match at the leftmost position that has one, <<>> if none
Search(s, At(_, _)) ==
    LET hits == {i \in 1..Len(s) : At(s, i)[1] > 0}
    IN  IF hits = {} THEN <<>> ELSE At(s, Min(hits))

\* \b at the gap before position i (1 .. Len(s) + 1)
WordBoundary(s, i) ==
    (i > 1 /\ i - 1 <= Len(s) /\ IsWord(s[i - 1])) # (i >= 1 /\ i <= Len(s) /\ IsWord(s[i]))

(***************************************************************************)
(* Bounds of the model                                                     *)
(***************************************************************************)
MaxPhrases == 2

(***************************************************************************)
(* Numbers written in the regular expressions of the source                *)
(***************************************************************************)
Pat3MinGene == 2
Pat3MaxGene == 15
Pat3MaxSpaces == 6
Pat3MaxOther == 6

NumMinDigits == 2
NumMaxDigits == 6
Rule4MaxGap == 30
MinSampleSize == 30

AgeMaxDigits == 3
Age1MaxGap == 6

FreqMaxGap == 8
Freq1MaxDecimals == 4
Freq2MaxInt == 3
Freq2MaxDecimals == 2

RsMinDigits == 3
OrMaxGap == 40

\* the significance threshold 0.05 as SigNum / 10^SigScale
SigNum == 5
SigScale == 2
PFallbackMaxGap == 80

\* the number of successful appends after which "Extract & Append" is no longer pressed
MaxAppends == 2

(***************************************************************************)
(* Gene/variant annotator: extract_rsids_and_genes_with_annotations        *)
(***************************************************************************)
\* Mutation of RsidAt: rs\d{3,} with the word boundaries left out
RsidAtUnbounded(s, i) ==
    IF /\ i + 1 <= Len(s)
       /\ LowerChar(s[i]) = "r"
       /\ LowerChar(s[i + 1]) = "s"
    THEN LET e == DigitRunEnd(s, i + 2)
         IN  IF e - (i + 2) + 1 >= RsMinDigits THEN e - i + 1 ELSE 0
    ELSE 0

\* length of the match of \b(rs\d{3,})\b (re.I) that starts at i, 0 if none
RsidAt(s, i) ==
    IF /\ WordBoundary(s, i)
       /\ i + 1 <= Len(s)
       /\ LowerChar(s[i]) = "r"
       /\ LowerChar(s[i + 1]) = "s"
    THEN LET e == DigitRunEnd(s, i + 2)
         IN  IF e - (i + 2) + 1 >= RsMinDigits /\ WordBoundary(s, e + 1) THEN e - i + 1 ELSE 0
    ELSE 0

\* re.findall(r'\b(rs\d{3,})\b', text, flags=re.I), scanning from position i
RECURSIVE FindAllRsids(_, _)
FindAllRsids(s, i) ==
    IF i > Len(s) THEN <<>>
    ELSE LET n == RsidAt(s, i)
         IN  IF n > 0
             THEN <<SubSeq(s, i, i + n - 1)>> \o FindAllRsids(s, i + n)
             ELSE FindAllRsids(s, i + 1)

\* list(dict.fromkeys(xs)): first occurrences, compared as written
RECURSIVE DictFromKeys(_)
DictFromKeys(xs) ==
    IF Len(xs) = 0 THEN <<>>
    ELSE LET init == DictFromKeys(SubSeq(xs, 1, Len(xs) - 1))
             last == xs[Len(xs)]
         IN  IF last \in Range(init) THEN init ELSE Append(init, last)

ExtractRsids(s) == DictFromKeys(FindAllRsids(s, 1))

GeneChars == AlnumChars \cup {"-", "_"}
IsGeneChar(c) == c \in GeneChars
RECURSIVE GeneRunEnd(_, _)
GeneRunEnd(s, i) ==
    IF i <= Len(s) /\ IsGeneChar(s[i]) THEN GeneRunEnd(s, i + 1) ELSE i - 1

RECURSIVE NextCloseParen(_, _)
NextCloseParen(s, i) ==
    IF i > Len(s) THEN 0
    ELSE IF s[i] = ")" THEN i
    ELSE NextCloseParen(s, i + 1)

\* pat1 = ([A-Za-z0-9\-\_]+)\s*\(\s*(rsi(?:[^\)]*)\)) with re.I, tried at start i:
\* <<end of group 1, start of group 2, end of group 2>>, or <<0, 0, 0>>
Pat1At(s, rsi, i) ==
    LET e == GeneRunEnd(s, i)
        a == SpaceRunEnd(s, e + 1) + 1
        b == SpaceRunEnd(s, a + 1) + 1
        c == NextCloseParen(s, b + Len(rsi))
    IN  IF /\ e >= i
           /\ a <= Len(s)
           /\ s[a] = "("
           /\ MatchAtI(rsi, s, b)
           /\ c > 0
        THEN <<e, b, c>>
        ELSE <<0, 0, 0>>

\* pat1.search(text): [found, gene, inner]
Pat1Search(s, rsi) ==
    LET starts == {i \in 1..Len(s) : Pat1At(s, rsi, i)[1] > 0}
    IN  IF starts = {} THEN [found |-> FALSE, gene |-> <<>>, inner |-> <<>>]
        ELSE LET i == Min(starts)
                 m == Pat1At(s, rsi, i)
             IN  [found |-> TRUE,
                  gene  |-> SubSeq(s, i, m[1]),
                  inner |-> SubSeq(s, m[2], m[3])]

\* gene_map[rsi]['annot'] after a pattern 1 match
Pat1Annot(inner, rsi) ==
    IF StartsWith(Strip(inner), rsi)
    THEN Strip(From(Strip(inner), Len(rsi) + 1))
    ELSE Strip(inner)

\* m2 = re.search(rsi\s*\/\s*([A-Za-z0-9\-\_]+), text), tried at start i: end of the gene or 0
Pat2At(s, rsi, i) ==
    LET a == SpaceRunEnd(s, i + Len(rsi)) + 1
        b == SpaceRunEnd(s, a + 1) + 1
        e == GeneRunEnd(s, b)
    IN  IF MatchAt(rsi, s, i) /\ a <= Len(s) /\ s[a] = "/" /\ e >= b
        THEN <<b, e>>
        ELSE <<0, 0>>

Pat2Search(s, rsi) ==
    LET starts == {i \in 1..Len(s) : Pat2At(s, rsi, i)[1] > 0}
    IN  IF starts = {} THEN [found |-> FALSE, gene |-> <<>>]
        ELSE LET m == Pat2At(s, rsi, Min(starts))
             IN  [found |-> TRUE, gene |-> SubSeq(s, m[1], m[2])]

\* \s{0,6}[^A-Za-z0-9]{0,6} matches exactly s[a..b] (empty when b = a - 1)
Pat3Separator(s, a, b) ==
    LET m == b - a + 1
    IN  /\ m >= 0
        /\ m <= Pat3MaxSpaces + Pat3MaxOther
        /\ \A j \in a..b : ~IsAlnum(s[j])
        /\ \A j \in a..(b - Pat3MaxOther) : IsSpace(s[j])

UpperOrDigitChars == UpperCase \cup Digits
IsUpperOrDigit(c) == c \in UpperOrDigitChars

\* m3 = re.search(([A-Z0-9]{2,15})\s{0,6}[^A-Za-z0-9]{0,6}rsi, text): the
\* candidate groups <<start, length>>; the leftmost start wins and, the
\* quantifier being greedy, the longest group at that start
Pat3Candidates(s, rsi) ==
    UNION {
        UNION {
            {<<p - m - k, k>> : k \in
                {n \in Pat3MinGene..Pat3MaxGene :
                    /\ p - m - n >= 1
                    /\ \A j \in (p - m - n)..(p - m - 1) : IsUpperOrDigit(s[j])}}
            : m \in {n \in 0..(Pat3MaxSpaces + Pat3MaxOther) :
                        p - n >= 1 /\ Pat3Separator(s, p - n, p - 1)}}
        : p \in Occurrences(rsi, s)}

Pat3Search(s, rsi) ==
    LET cands == Pat3Candidates(s, rsi)
    IN  IF cands = {} THEN [found |-> FALSE, gene |-> <<>>]
        ELSE LET i == Min({c[1] : c \in cands})
                 k == Max({c[2] : c \in {d \in cands : d[1] = i}})
             IN  [found |-> TRUE, gene |-> SubSeq(s, i, i + k - 1)]

\* one iteration of the loop over rsids: the entry of gene_map for rsi
GeneEntry(s, rsi) ==
    LET m1 == Pat1Search(s, rsi)
        m2 == Pat2Search(s, rsi)
        m3 == Pat3Search(s, rsi)
    IN  IF m1.found THEN [gene |-> Strip(m1.gene), annot |-> Pat1Annot(m1.inner, rsi)]
        ELSE IF m2.found THEN [gene |-> Strip(m2.gene), annot |-> <<>>]
        ELSE IF m3.found THEN [gene |-> Strip(m3.gene), annot |-> <<>>]
        ELSE [gene |-> None, annot |-> <<>>]

GeneMap(s, rs) == [r \in Range(rs) |-> GeneEntry(s, r)]

\* Mutation of GeneFirstPos: the index of the last rsID of the gene, as plain
\* assignment in place of setdefault would keep
GeneLastPos(rs, gm) ==
    LET genes == {gm[r].gene : r \in Range(rs)} \ {None}
    IN  [g \in genes |-> Max({i \in 1..Len(rs) : gm[rs[i]].gene = g}) - 1]

\* gene_first_pos: gene -> index (0-based) of the first rsID that set it
GeneFirstPos(rs, gm) ==
    LET genes == {gm[r].gene : r \in Range(rs)} \ {None}
    IN  [g \in genes |-> Min({i \in 1..Len(rs) : gm[rs[i]].gene = g}) - 1]

\* sorted(gene_first_pos.items(), key=lambda kv: kv[1]), the genes only;
\* built index by index from position k on
RECURSIVE SortedByPos(_, _, _)
SortedByPos(gfp, k, n) ==
    IF k >= n THEN <<>>
    ELSE LET here == {g \in DOMAIN gfp : gfp[g] = k}
         IN  (IF here = {} THEN <<>> ELSE <<CHOOSE g \in here : TRUE>>)
             \o SortedByPos(gfp, k + 1, n)

GenesOrdered(rs, gm) == SortedByPos(GeneFirstPos(rs, gm), 0, Len(rs))

extract_rsids_and_genes_with_annotations(s) ==
    IF Len(s) = 0
    THEN [rsids |-> <<>>, gene_map |-> <<>>, genes_ordered |-> <<>>]
    ELSE LET rs == ExtractRsids(s)
             gm == GeneMap(s, rs)
         IN  [rsids |-> rs, gene_map |-> gm, genes_ordered |-> GenesOrdered(rs, gm)]

(***************************************************************************)
(* Heuristic field extractors                                              *)
(***************************************************************************)
\* STUDY_DESIGN_KEYWORDS, in declaration order
STUDY_DESIGN_KEYWORDS == <<
    [label |-> <<"C", "a", "s", "e", " ", "c", "o", "n", "t", "r", "o", "l">>,
     keys  |-> <<<<"c", "a", "s", "e", "-", "c", "o", "n", "t", "r", "o", "l">>, <<"c", "a", "s", "e", " ", "c", "o", "n", "t", "r", "o", "l">>, <<"c", "a", "s", "e", "-", "c", "o", "n", "t", "r", "o", "l", " ", "s", "t", "u", "d", "y">>>>],
    [label |-> <<"C", "o", "h", "o", "r", "t">>,
     keys  |-> <<<<"c", "o", "h", "o", "r", "t">>, <<"p", "r", "o", "s", "p", "e", "c", "t", "i", "v", "e", " ", "c", "o", "h", "o", "r", "t">>, <<"r", "e", "t", "r", "o", "s", "p", "e", "c", "t", "i", "v", "e", " ", "c", "o", "h", "o", "r", "t">>>>],
    [label |-> <<"C", "r", "o", "s", "s", "-", "s", "e", "c", "t", "i", "o", "n", "a", "l">>,
     keys  |-> <<<<"c", "r", "o", "s", "s", "-", "s", "e", "c", "t", "i", "o", "n", "a", "l">>>>],
    [label |-> <<"R", "C", "T">>,
     keys  |-> <<<<"r", "a", "n", "d", "o", "m", "i", "z", "e", "d">>, <<"r", "a", "n", "d", "o", "m", "i", "s", "e", "d">>, <<"r", "a", "n", "d", "o", "m", "i", "z", "e", "d", " ", "c", "o", "n", "t", "r", "o", "l", "l", "e", "d", " ", "t", "r", "i", "a", "l">>>>],
    [label |-> <<"M", "e", "t", "a", "-", "a", "n", "a", "l", "y", "s", "i", "s">>,
     keys  |-> <<<<"m", "e", "t", "a", "-", "a", "n", "a", "l", "y", "s", "i", "s">>, <<"m", "e", "t", "a", " ", "a", "n", "a", "l", "y", "s", "i", "s">>, <<"s", "y", "s", "t", "e", "m", "a", "t", "i", "c", " ", "r", "e", "v", "i", "e", "w">>>> ] >>

REGION_KEYWORDS == <<<<"P", "a", "k", "i", "s", "t", "a", "n">>, <<"P", "a", "s", "h", "t", "u", "n">>, <<"K", "P", "K">>, <<"K", "h", "y", "b", "e", "r">>, <<"S", "i", "n", "d", "h">>, <<"P", "u", "n", "j", "a", "b">>,
    <<"B", "a", "l", "o", "c", "h", "i", "s", "t", "a", "n">>, <<"I", "n", "d", "i", "a">>, <<"C", "h", "i", "n", "a">>, <<"U", "S", "A">>, <<"U", "n", "i", "t", "e", "d", " ", "S", "t", "a", "t", "e", "s">>>>

GENOTYPE_KEYWORDS == <<<<"M", "a", "s", "s", "A", "R", "R", "A", "Y">>, <<"m", "a", "s", "s", "a", "r", "r", "a", "y">>, <<"M", "a", "s", "s", "A", "R", "R", "A", "Y", " ", "g", "e", "n", "o", "t", "y", "p", "i", "n", "g">>,
    <<"w", "h", "o", "l", "e", " ", "e", "x", "o", "m", "e", " ", "s", "e", "q", "u", "e", "n", "c", "i", "n", "g">>, <<"W", "E", "S">>, <<"P", "C", "R">>, <<"T", "a", "q", "M", "a", "n">>, <<"m", "i", "c", "r", "o", "a", "r", "r", "a", "y">>,
    <<"s", "e", "q", "u", "e", "n", "c", "i", "n", "g">>, <<"S", "a", "n", "g", "e", "r">>, <<"g", "e", "n", "o", "t", "y", "p", "i", "n", "g">>>>

\* the index of the first element of seq that satisfies Hit; 0 if none
FirstIndex(seq, Hit(_)) ==
    LET hits == {i \in 1..Len(seq) : Hit(seq[i])}
    IN  IF hits = {} THEN 0 ELSE Min(hits)

find_study_design(s) ==
    IF Len(s) = 0 THEN <<>>
    ELSE LET t == Lower(s)
             HasKey(entry) == \E j \in 1..Len(entry.keys) : Contains(entry.keys[j], t)
             i == FirstIndex(STUDY_DESIGN_KEYWORDS, HasKey)
         IN  IF i = 0 THEN <<>> ELSE STUDY_DESIGN_KEYWORDS[i].label

\* re.search(r'\b' + re.escape(r) + r'\b', text, re.I)
WholeWordI(r, s) ==
    \E i \in OccurrencesI(r, s) : WordBoundary(s, i) /\ WordBoundary(s, i + Len(r))

\* Mutation of find_region: the place name that occurs first in the text
find_region_by_position(s) ==
    IF Len(s) = 0 THEN <<>>
    ELSE LET Pos(r) == {i \in OccurrencesI(r, s) :
                            WordBoundary(s, i) /\ WordBoundary(s, i + Len(r))}
             found == {k \in 1..Len(REGION_KEYWORDS) : Pos(REGION_KEYWORDS[k]) # {}}
         IN  IF found = {} THEN <<>>
             ELSE REGION_KEYWORDS[CHOOSE k \in found : \A j \in found :
                      Min(Pos(REGION_KEYWORDS[k])) <= Min(Pos(REGION_KEYWORDS[j]))]

find_region(s) ==
    IF Len(s) = 0 THEN <<>>
    ELSE LET Found(r) == WholeWordI(r, s)
             i == FirstIndex(REGION_KEYWORDS, Found)
         IN  IF i = 0 THEN <<>> ELSE REGION_KEYWORDS[i]

find_genotyping_method(s) ==
    IF Len(s) = 0 THEN <<>>
    ELSE LET t == Lower(s)
             Found(key) == Contains(Lower(key), t)
             i == FirstIndex(GENOTYPE_KEYWORDS, Found)
         IN  IF i = 0 THEN <<>> ELSE GENOTYPE_KEYWORDS[i]

\* text.replace(',', '')
RECURSIVE RemoveChar(_, _)
RemoveChar(s, c) ==
    IF Len(s) = 0 THEN <<>>
    ELSE (IF s[1] = c THEN <<>> ELSE <<s[1]>>) \o RemoveChar(Tail(s), c)

\* a result of find_sample_size: the empty string, or an int n, which is written
\* <<n>> so that it is a value no string equals
SizeInt(n) == <<n>>
SizeEmpty == <<>>

\* (\d{2,6}) at its greedy longest, starting at i: the end of the group, 0 if no match
NumGroupEnd(s, i) ==
    LET e == DigitRunEnd(s, i)
    IN  IF e - i + 1 < NumMinDigits THEN 0
        ELSE IF e - i + 1 > NumMaxDigits THEN i + NumMaxDigits - 1
        ELSE e

\* (\d{2,6})\s+ at i, the group ending where the digits end: <<end of group, end of spaces>>
NumThenSpaces(s, i) ==
    LET e == NumGroupEnd(s, i)
        sp == SpaceRunEnd(s, e + 1)
    IN  IF i >= 1 /\ i <= Len(s) /\ e > 0 /\ e = DigitRunEnd(s, i) /\ sp > e
        THEN <<e, sp>>
        ELSE <<0, 0>>

\* rule 1: \b[nN]\s*=\s*(\d{2,6}), tried at i: <<start, end>> of the group
SizeRule1At(s, i) ==
    LET a == SpaceRunEnd(s, i + 1) + 1
        b == SpaceRunEnd(s, a + 1) + 1
        e == NumGroupEnd(s, b)
    IN  IF /\ WordBoundary(s, i)
           /\ s[i] \in {"n", "N"}
           /\ a <= Len(s)
           /\ s[a] = "="
           /\ e > 0
        THEN <<b, e>>
        ELSE <<0, 0>>

\* rule 2: sample size (?:of )?(\d{2,6}), tried at i
SizeRule2At(s, i) ==
    LET j == i + Len(<<"s", "a", "m", "p", "l", "e", " ", "s", "i", "z", "e", " ">>)
        k == j + Len(<<"o", "f", " ">>)
    IN  IF ~MatchAt(<<"s", "a", "m", "p", "l", "e", " ", "s", "i", "z", "e", " ">>, s, i) THEN <<0, 0>>
        ELSE IF MatchAt(<<"o", "f", " ">>, s, j) /\ NumGroupEnd(s, k) > 0 THEN <<k, NumGroupEnd(s, k)>>
        ELSE IF NumGroupEnd(s, j) > 0 THEN <<j, NumGroupEnd(s, j)>>
        ELSE <<0, 0>>

\* rule 3: (\d{2,6})\s+T2DM cases and controls each, tried at i
SizeRule3At(s, i) ==
    LET m == NumThenSpaces(s, i)
    IN  IF m[1] > 0 /\ MatchAt(<<"T", "2", "D", "M", " ", "c", "a", "s", "e", "s", " ", "a", "n", "d", " ", "c", "o", "n", "t", "r", "o", "l", "s", " ", "e", "a", "c", "h">>, s, m[2] + 1)
        THEN <<i, m[1]>>
        ELSE <<0, 0>>

\* the position of the first digit at or after i, Len(s) + 1 if none
RECURSIVE NextDigit(_, _)
NextDigit(s, i) ==
    IF i > Len(s) \/ IsDigit(s[i]) THEN i ELSE NextDigit(s, i + 1)

\* rule 4: (\d{2,6})\s+(?:cases|subjects)[^\d]{0,30}?(\d{2,6})\s+controls, tried
\* at i: <<start 1, end 1, start 2, end 2>>
SizeRule4At(s, i) ==
    LET Second(m, w, q, n) ==
            IF /\ m[1] > 0
               /\ w > 0
               /\ q - w <= Rule4MaxGap
               /\ n[1] > 0
               /\ MatchAt(<<"c", "o", "n", "t", "r", "o", "l", "s">>, s, n[2] + 1)
            THEN <<i, m[1], q, n[1]>>
            ELSE <<0, 0, 0, 0>>
        Gap(m, w, q) == Second(m, w, q, NumThenSpaces(s, q))
        Word(m, w) == Gap(m, w, NextDigit(s, w))
        First(m) ==
            Word(m, IF MatchAt(<<"c", "a", "s", "e", "s">>, s, m[2] + 1) THEN m[2] + 1 + Len(<<"c", "a", "s", "e", "s">>)
                    ELSE IF MatchAt(<<"s", "u", "b", "j", "e", "c", "t", "s">>, s, m[2] + 1) THEN m[2] + 1 + Len(<<"s", "u", "b", "j", "e", "c", "t", "s">>)
                    ELSE 0)
    IN  First(NumThenSpaces(s, i))

\* re.findall(r'\b(\d{2,6})\b', t) as integers
FreeNumbers(s) ==
    {ToInt(SubSeq(s, i, NumGroupEnd(s, i))) : i \in
        {j \in 1..Len(s) : /\ WordBoundary(s, j)
                           /\ NumGroupEnd(s, j) > 0
                           /\ WordBoundary(s, NumGroupEnd(s, j) + 1)}}

\* Mutation of SizeRuleChosen: the rules tried in the reverse order
SizeRuleChosenReversed(m1, m2, m3, m4) ==
    IF m4 # <<>> THEN 4 ELSE IF m3 # <<>> THEN 3 ELSE IF m2 # <<>> THEN 2 ELSE IF m1 # <<>> THEN 1 ELSE 0

\* the rule whose "if m: return" is taken, given the match of each rule (<<>> when
\* the rule has none): the first rule that matches, 0 if none does
SizeRuleChosen(m1, m2, m3, m4) ==
    IF m1 # <<>> THEN 1 ELSE IF m2 # <<>> THEN 2 ELSE IF m3 # <<>> THEN 3 ELSE IF m4 # <<>> THEN 4 ELSE 0

\* the returns of find_sample_size, given the text without commas, the match of each
\* rule and the free-standing numbers
SizeReturned(t, m1, m2, m3, m4, nums) ==
    LET Group(b, e) == ToInt(SubSeq(t, b, e))
        Return(rule) ==
            IF rule = 1 THEN SizeInt(Group(m1[1], m1[2]))
            ELSE IF rule = 2 THEN SizeInt(Group(m2[1], m2[2]))
            ELSE IF rule = 3 THEN SizeInt(Group(m3[1], m3[2]) * 2)
            ELSE IF rule = 4 THEN SizeInt(Group(m4[1], m4[2]) + Group(m4[3], m4[4]))
            ELSE IF nums # {} /\ Max(nums) >= MinSampleSize THEN SizeInt(Max(nums))
            ELSE SizeEmpty
    IN  Return(SizeRuleChosen(m1, m2, m3, m4))

\* find_sample_size from t = text.replace(',', '') on
SizeOfText(t) ==
    SizeReturned(t, Search(t, SizeRule1At), Search(t, SizeRule2At), Search(t, SizeRule3At),
                 Search(t, SizeRule4At), FreeNumbers(t))

find_sample_size(s) == IF Len(s) = 0 THEN SizeEmpty ELSE SizeOfText(RemoveChar(s, ","))
(***************************************************************************)
(* find_mean_age                                                           *)
(***************************************************************************)
\* [0-9]{1,3}(?:\.[0-9]+)? at its greedy longest, starting at i: its end, 0 if no match
AgeNumEnd(s, i) ==
    LET e == DigitRunEnd(s, i)
        d == IF e - i + 1 > AgeMaxDigits THEN i + AgeMaxDigits - 1 ELSE e
        f == DigitRunEnd(s, d + 2)
    IN  IF i < 1 \/ e < i THEN 0
        ELSE IF d + 1 <= Len(s) /\ s[d + 1] = "." /\ f >= d + 2 THEN f
        ELSE d

\* (?:±|\+/-) at i: the position after it, 0 if no match
SignEnd(s, i) ==
    IF i >= 1 /\ i <= Len(s) /\ s[i] = PlusMinus THEN i + 1
    ELSE IF MatchAt(<<"+", "/", "-">>, s, i) THEN i + Len(<<"+", "/", "-">>)
    ELSE 0

\* (number)\s*(?:±|\+/-)\s*(number) at i: <<end 1, start 2, end 2>>, or zeros
AgePairAt(s, i) ==
    LET Pair(e1, b2, e2) == IF e1 > 0 /\ b2 > 0 /\ e2 > 0 THEN <<e1, b2, e2>> ELSE <<0, 0, 0>>
        Second(e1, b2) == Pair(e1, b2, AgeNumEnd(s, b2))
        Sign(e1, g) == Second(e1, IF g > 0 THEN SpaceRunEnd(s, g) + 1 ELSE 0)
        First(e1) == Sign(e1, SignEnd(s, SpaceRunEnd(s, e1 + 1) + 1))
    IN  First(AgeNumEnd(s, i))

\* a pair that starts at q, as <<start 1, end 1, start 2, end 2>>, or zeros
AgeGroups(q, m) == IF m[1] > 0 THEN <<q, m[1], m[2], m[3]>> ELSE <<0, 0, 0, 0>>
AgeGroupsAt(s, q) == AgeGroups(q, AgePairAt(s, q))

\* pattern 1: mean age[^0-9]{0,6}(number)\s*(?:±|\+/-)\s*(number), tried at i
Age1At(s, i) ==
    LET From1(q) ==
            IF MatchAtI(<<"m", "e", "a", "n", " ", "a", "g", "e">>, s, i) /\ q - (i + Len(<<"m", "e", "a", "n", " ", "a", "g", "e">>)) <= Age1MaxGap
            THEN AgeGroupsAt(s, q)
            ELSE <<0, 0, 0, 0>>
    IN  From1(NextDigit(s, i + Len(<<"m", "e", "a", "n", " ", "a", "g", "e">>)))

\* pattern 2: mean age (?:was|of)?\s*(number), tried at i: <<start, end>> of the group
Age2At(s, i) ==
    LET Group(q, e) == IF MatchAtI(<<"m", "e", "a", "n", " ", "a", "g", "e", " ">>, s, i) /\ e > 0 THEN <<q, e>> ELSE <<0, 0>>
        From2(q) == Group(q, AgeNumEnd(s, q))
        After(j) ==
            From2(SpaceRunEnd(s, IF MatchAtI(<<"w", "a", "s">>, s, j) THEN j + Len(<<"w", "a", "s">>)
                                 ELSE IF MatchAtI(<<"o", "f">>, s, j) THEN j + Len(<<"o", "f">>)
                                 ELSE j) + 1)
    IN  After(i + Len(<<"m", "e", "a", "n", " ", "a", "g", "e", " ">>))

RECURSIVE ColonSpaceRunEnd(_, _)
ColonSpaceRunEnd(s, i) ==
    IF i <= Len(s) /\ (s[i] = ":" \/ IsSpace(s[i])) THEN ColonSpaceRunEnd(s, i + 1) ELSE i - 1

\* <word>[:\s]*(number)\s*(?:±|\+/-)\s*(number) at i: <<start 1, end 1, start 2, end 2>>
AgeGroupAt(s, word, i) ==
    IF MatchAtI(word, s, i)
    THEN AgeGroupsAt(s, ColonSpaceRunEnd(s, i + Len(word)) + 1)
    ELSE <<0, 0, 0, 0>>

\* the control groups of pattern 3 after the case groups c: .* is greedy and does
\* not cross a line break, so the last control... within the line is taken
AgeControlAfter(s, c) ==
    LET Last(ctl) == IF ctl = {} THEN <<0, 0, 0, 0>> ELSE AgeGroupAt(s, <<"c", "o", "n", "t", "r", "o", "l">>, Max(ctl))
        Within(a) ==
            Last({j \in a..Len(s) : /\ AgeGroupAt(s, <<"c", "o", "n", "t", "r", "o", "l">>, j)[1] > 0
                                    /\ \A k \in a..(j - 1) : s[k] # "\n"})
    IN  Within(SpaceRunEnd(s, c[4] + 1) + 1)

\* pattern 3: case... \s*.*control..., tried at i: the case groups followed by the
\* control groups, or zeros
Age3At(s, i) ==
    LET Both(c, d) == IF c[1] > 0 /\ d[1] > 0 THEN c \o d ELSE <<0, 0, 0, 0, 0, 0, 0, 0>>
        Case(c) == Both(c, IF c[1] > 0 THEN AgeControlAfter(s, c) ELSE <<0, 0, 0, 0>>)
    IN  Case(AgeGroupAt(s, <<"c", "a", "s", "e">>, i))

\* the returns of find_mean_age, given the match of each pattern (<<>> when the
\* pattern has none)
AgeReturned(s, m1, m2, m3) ==
    IF m1 # <<>>
    THEN SubSeq(s, m1[1], m1[2]) \o <<" ", PlusMinus, " ">> \o SubSeq(s, m1[3], m1[4])
    ELSE IF m2 # <<>>
    THEN SubSeq(s, m2[1], m2[2])
    ELSE IF m3 # <<>>
    THEN <<"c", "a", "s", "e", ":">> \o SubSeq(s, m3[1], m3[2]) \o <<PlusMinus>> \o SubSeq(s, m3[3], m3[4])
         \o <<" ", "c", "o", "n", "t", "r", "o", "l", ":">> \o SubSeq(s, m3[5], m3[6]) \o <<PlusMinus>> \o SubSeq(s, m3[7], m3[8])
    ELSE <<>>

find_mean_age(s) ==
    IF Len(s) = 0 THEN <<>>
    ELSE AgeReturned(s, Search(s, Age1At), Search(s, Age2At), Search(s, Age3At))
(***************************************************************************)
(* extract_allele_freqs                                                    *)
(***************************************************************************)
\* the first n characters of a digit run that starts at i, at most max of them: its end
DigitsUpTo(s, i, max) ==
    LET e == DigitRunEnd(s, i)
    IN  IF e - i + 1 > max THEN i + max - 1 ELSE e

\* rsi[^0-9]{0,8}([01]?\.\d{1,4}) tried at i: <<start, end>> of the group.  The
\* filler is greedy, so the form with the leading 0 or 1 is tried first.
Freq1At(s, rsi, i) ==
    LET a == i + Len(rsi)
        d == NextDigit(s, a)
    IN  IF ~MatchAt(rsi, s, i) \/ d > Len(s) THEN <<0, 0>>
        ELSE IF /\ d - a <= FreqMaxGap
                /\ s[d] \in {"0", "1"}
                /\ d + 2 <= Len(s)
                /\ s[d + 1] = "."
                /\ IsDigit(s[d + 2])
             THEN <<d, DigitsUpTo(s, d + 2, Freq1MaxDecimals)>>
        ELSE IF d - 1 >= a /\ d - 1 - a <= FreqMaxGap /\ s[d - 1] = "."
             THEN <<d - 1, DigitsUpTo(s, d, Freq1MaxDecimals)>>
        ELSE <<0, 0>>

\* rsi[^0-9]{0,8}([0-9]{1,3}\.\d{1,2})\s*% tried at i: <<start, dot, end>> of the group
Freq2At(s, rsi, i) ==
    LET a == i + Len(rsi)
        d == NextDigit(s, a)
        e == DigitRunEnd(s, d)
        f == DigitRunEnd(s, e + 2)
        p == SpaceRunEnd(s, f + 1) + 1
    IN  IF /\ MatchAt(rsi, s, i)
           /\ d <= Len(s)
           /\ d - a <= FreqMaxGap
           /\ e - d + 1 <= Freq2MaxInt
           /\ e + 1 <= Len(s)
           /\ s[e + 1] = "."
           /\ f >= e + 2
           /\ f - (e + 2) + 1 <= Freq2MaxDecimals
           /\ p <= Len(s)
           /\ s[p] = "%"
        THEN <<d, e + 1, f>>
        ELSE <<0, 0, 0>>

\* n as a string of at least w digits
RECURSIVE ZeroPad(_, _)
ZeroPad(ds, w) == IF Len(ds) >= w THEN ds ELSE ZeroPad(<<"0">> \o ds, w)

\* f"{float(g)/100.0:.3f}" for g = <int part>.<1 or 2 decimals>.  thousandths is
\* the value in units of 0.001; with two decimals the second one is the fourth
\* decimal of the quotient, rounded to nearest, and an exact decimal tie (5) falls
\* to the side on which the binary quotient lies, which tie_up stands for.
PercentToFraction(int_part, decimals, tie_up) ==
    LET whole == 10 * ToInt(int_part) + DigitVal(decimals[1])
        last  == IF Len(decimals) = 2 THEN DigitVal(decimals[2]) ELSE 0
        thousandths == IF last > 5 \/ (last = 5 /\ tie_up) THEN whole + 1 ELSE whole
    IN  IntToStr(thousandths \div 1000) \o <<".">> \o ZeroPad(IntToStr(thousandths % 1000), 3)

\* freqs[rsi]: None, or the frequency as text
AlleleFreq(s, rsi, tie_up) ==
    LET m1 == {i \in 1..Len(s) : Freq1At(s, rsi, i)[1] > 0}
        m2 == {i \in 1..Len(s) : Freq2At(s, rsi, i)[1] > 0}
    IN  IF m1 # {} THEN
            LET g == Freq1At(s, rsi, Min(m1)) IN SubSeq(s, g[1], g[2])
        ELSE IF m2 # {} THEN
            LET g == Freq2At(s, rsi, Min(m2))
            IN  PercentToFraction(SubSeq(s, g[1], g[2] - 1), SubSeq(s, g[2] + 1, g[3]), tie_up)
        ELSE None

extract_allele_freqs(s, rs, tie_up) ==
    [r \in Range(rs) |-> IF Len(s) = 0 THEN None ELSE AlleleFreq(s, r, tie_up)]

(***************************************************************************)
(* Association extractor: extract_or_pvals and infer_effect_direction     *)
(***************************************************************************)
\* [0-9]+\.[0-9]+ at its greedy longest, starting at i: its end, 0 if no match
DecimalEnd(s, i) ==
    LET e == DigitRunEnd(s, i)
        f == DigitRunEnd(s, e + 2)
    IN  IF i >= 1 /\ e >= i /\ e + 1 <= Len(s) /\ s[e + 1] = "." /\ f >= e + 2 THEN f ELSE 0

\* <word>\s*[=:]?\s*([0-9]+\.[0-9]+) at c, word matched without regard to case:
\* <<start, end>> of the group
OrValueAt(s, word, c) ==
    LET Group(n, e) == IF MatchAtI(word, s, c) /\ e > 0 THEN <<n, e>> ELSE <<0, 0>>
        Number(n) == Group(n, DecimalEnd(s, n))
        Sep(a) == Number(SpaceRunEnd(s, IF a <= Len(s) /\ s[a] \in {"=", ":"} THEN a + 1 ELSE a) + 1)
    IN  Sep(SpaceRunEnd(s, c + Len(word)) + 1)

\* (?:OR|odds ratio)\s*[=:]?\s*([0-9]+\.[0-9]+)\b at c
OrCore1At(s, c) ==
    LET Bounded(m) == IF m[1] > 0 /\ WordBoundary(s, m[2] + 1) THEN m ELSE <<0, 0>>
        Either(m) == Bounded(IF m[1] > 0 THEN m ELSE OrValueAt(s, <<"o", "d", "d", "s", " ", "r", "a", "t", "i", "o">>, c))
    IN  Either(OrValueAt(s, <<"O", "R">>, c))

\* P\s*[=<>]\s*([0-9\.>]+) at p (re.I): <<start, end>> of the group
IsPValueChar(c) == IsDigit(c) \/ c = "." \/ c = ">"
RECURSIVE PValueRunEnd(_, _)
PValueRunEnd(s, i) ==
    IF i <= Len(s) /\ IsPValueChar(s[i]) THEN PValueRunEnd(s, i + 1) ELSE i - 1
PTailAt(s, p) ==
    LET Group(a, b, e) ==
            IF /\ p >= 1 /\ p <= Len(s)
               /\ LowerChar(s[p]) = "p"
               /\ a <= Len(s)
               /\ s[a] \in {"=", "<", ">"}
               /\ e >= b
            THEN <<b, e>>
            ELSE <<0, 0>>
        Value(a, b) == Group(a, b, PValueRunEnd(s, b))
        Sign(a) == Value(a, SpaceRunEnd(s, a + 1) + 1)
    IN  Sign(SpaceRunEnd(s, p + 1) + 1)

\* the end of the longest run from i of characters outside the set stop
RECURSIVE RunEndExcept(_, _, _)
RunEndExcept(s, i, stop) ==
    IF i <= Len(s) /\ s[i] \notin stop THEN RunEndExcept(s, i + 1, stop) ELSE i - 1

\* (rs\d{3,}) at i (re.I, no \b): the end of the group, 0 if no match
RsPrefixEnd(s, i) ==
    LET e == DigitRunEnd(s, i + 2)
    IN  IF MatchAtI(<<"r", "s">>, s, i) /\ e - (i + 2) + 1 >= RsMinDigits THEN e ELSE 0

NoMatch == [found |-> FALSE, rsid |-> None, OR |-> <<>>, P |-> None, end |-> 0]

\* the first pattern of extract_or_pvals, tried at i.  The trailing
\* [^\)]{0,80}?(?:P...)? is lazy before an optional group: it is tried with no
\* filler, where \b has just held after a digit, so that no P can follow there, and
\* the optional group is then left out: group 3 is None in every match.
Pattern1At(s, i) ==
    LET Matched(rsid, m) == [found |-> TRUE, rsid |-> rsid,
                             OR |-> SubSeq(s, m[1], m[2]), P |-> None, end |-> m[2]]
        Alone(m) == IF m[1] > 0 THEN Matched(None, m) ELSE NoMatch
        Prefixed(r, cs) == IF r > 0 /\ cs # {}
                           THEN Matched(SubSeq(s, i, r), OrCore1At(s, Max(cs)))
                           ELSE Alone(OrCore1At(s, i))
        Reach(r, top) == Prefixed(r, {c \in (r + 1)..top : OrCore1At(s, c)[1] > 0})
        Limit(r, lim) == Reach(r, IF lim > r + 1 + OrMaxGap THEN r + 1 + OrMaxGap ELSE lim)
        Prefix(r) == Limit(r, RunEndExcept(s, r + 1, {"(", ")", ",", ";"}) + 1)
    IN  Prefix(RsPrefixEnd(s, i))

NoNewline(s, a, b) == \A k \in a..b : s[k] # "\n"

\* .*?P\s*[=<>]\s*([0-9\.>]+) from position a: the first P that completes the match
PAfter(s, a) ==
    LET First(ps) == IF ps = {} THEN <<0, 0>> ELSE PTailAt(s, Min(ps))
    IN  First({p \in a..Len(s) : PTailAt(s, p)[1] > 0 /\ NoNewline(s, a, p - 1)})

\* .*?OR\s*[=:]?\s*([0-9]+\.[0-9]+).*?P... from position a: <<OR start, OR end, P start, P end>>
OrThenPAfter(s, a) ==
    LET Groups(m, p) == <<m[1], m[2], p[1], p[2]>>
        WithP(m) == Groups(m, PAfter(s, m[2] + 1))
        First(os) == IF os = {} THEN <<0, 0, 0, 0>> ELSE WithP(OrValueAt(s, <<"O", "R">>, Min(os)))
        Completes(m) == m[1] > 0 /\ PAfter(s, m[2] + 1)[1] > 0
    IN  First({o \in a..Len(s) : NoNewline(s, a, o - 1) /\ Completes(OrValueAt(s, <<"O", "R">>, o))})

\* the second pattern, tried at i: (rs\d{3,})[^\)]{0,40}\( is greedy, so the last
\* opening parenthesis within reach that completes the match is taken
Pattern2At(s, i) ==
    LET Matched(r, m) == [found |-> TRUE, rsid |-> SubSeq(s, i, r),
                          OR |-> SubSeq(s, m[1], m[2]), P |-> SubSeq(s, m[3], m[4]), end |-> m[4]]
        Opened(r, hs) == IF r > 0 /\ hs # {} THEN Matched(r, OrThenPAfter(s, Max(hs) + 1))
                         ELSE NoMatch
        Reach(r, top) == Opened(r, {h \in (r + 1)..top : s[h] = "(" /\ OrThenPAfter(s, h + 1)[1] > 0})
        Limit(r, lim) == Reach(r, IF lim > r + 1 + OrMaxGap THEN r + 1 + OrMaxGap ELSE lim)
        Prefix(r) == Limit(r, RunEndExcept(s, r + 1, {")"}))
    IN  Prefix(RsPrefixEnd(s, i))

\* pattern.finditer(text) from position i on: the leftmost match, then the
\* matches after its end
RECURSIVE FindIter1(_, _)
FindIter1(s, i) ==
    LET Step(m) == <<m>> \o FindIter1(s, m.end + 1)
        Leftmost(hits) == IF hits = {} THEN <<>> ELSE Step(Pattern1At(s, Min(hits)))
    IN  Leftmost({j \in i..Len(s) : Pattern1At(s, j).found})
RECURSIVE FindIter2(_, _)
FindIter2(s, i) ==
    LET Step(m) == <<m>> \o FindIter2(s, m.end + 1)
        Leftmost(hits) == IF hits = {} THEN <<>> ELSE Step(Pattern2At(s, Min(hits)))
    IN  Leftmost({j \in i..Len(s) : Pattern2At(s, j).found})

\* key = rsi or f"OR_{orv}_P_{p}"
EntryKey(m) ==
    IF m.rsid # None THEN m.rsid ELSE <<"O", "R", "_">> \o m.OR \o <<"_", "P", "_">> \o Str(m.P)

\* the unique dict: the first entry of each key, in insertion order
RECURSIVE UniqueByKey(_)
UniqueByKey(ms) ==
    IF Len(ms) = 0 THEN <<>>
    ELSE LET init == UniqueByKey(SubSeq(ms, 1, Len(ms) - 1))
             last == ms[Len(ms)]
         IN  IF \E j \in 1..Len(init) : EntryKey(init[j]) = EntryKey(last)
             THEN init
             ELSE Append(init, last)

extract_or_pvals(s) ==
    LET Values(unique) ==
            [j \in 1..Len(unique) |->
                [rsid |-> unique[j].rsid, OR |-> unique[j].OR, P |-> unique[j].P]]
    IN  IF Len(s) = 0 THEN <<>>
        ELSE Values(UniqueByKey(FindIter1(s, 1) \o FindIter2(s, 1)))

\* 10^n
RECURSIVE Pow10(_)
Pow10(n) == IF n = 0 THEN 1 ELSE 10 * Pow10(n - 1)

\* float(s) for the strings the callers pass, which are made of digits and dots:
\* the value num / 10^scale, or ok = FALSE where float() raises ValueError
ParseFloat(s) ==
    LET dots == {i \in 1..Len(s) : s[i] = "."}
        digits == RemoveChar(s, ".")
    IN  IF /\ \A i \in 1..Len(s) : IsDigit(s[i]) \/ s[i] = "."
           /\ Cardinality(dots) <= 1
           /\ Len(digits) >= 1
        THEN [ok |-> TRUE, num |-> ToInt(digits),
              scale |-> IF dots = {} THEN 0 ELSE Len(s) - Max(dots)]
        ELSE [ok |-> FALSE, num |-> 0, scale |-> 0]

\* Mutation of AtMostThreshold: float(a) < threshold
BelowThreshold(v) == v.num * Pow10(SigScale) < SigNum * Pow10(v.scale)

\* float(a) <= threshold, the threshold being SigNum / 10^SigScale = 0.05
AtMostThreshold(v) == v.num * Pow10(SigScale) <= SigNum * Pow10(v.scale)

\* p_sig: "none", "true" or "false"
PSig(p) ==
    IF p = None \/ Len(p) = 0 THEN "none"
    ELSE LET v == ParseFloat(IF ">" \in Range(p) THEN RemoveChar(p, ">") ELSE p)
         IN  IF ~v.ok THEN "none"
             ELSE IF AtMostThreshold(v) THEN "true"
             ELSE "false"

infer_effect_direction(o, p) ==
    LET orv == ParseFloat(o)
        one == Pow10(orv.scale)
        eff == IF orv.num > one THEN <<"R", "i", "s", "k", " ", UpArrow>>
               ELSE IF orv.num < one THEN <<"R", "i", "s", "k", " ", DownArrow>>
               ELSE <<"N", "o", " ", "c", "h", "a", "n", "g", "e">>
    IN  IF ~orv.ok THEN <<>>
        ELSE IF PSig(p) = "false" THEN <<"N", "o", " ", "s", "i", "g", "n", "i", "f", "i", "c", "a", "n", "t", " ", "e", "f", "f", "e", "c", "t", " ", "(", "n", "s", ")">>
        ELSE eff

(***************************************************************************)
(* Record assembler: parse_article from the corpus on                      *)
(***************************************************************************)
\* the display of one rsID inside its gene's entry
RsDisplay(rsi, entry) ==
    LET annot == Strip(entry.annot)
    IN  IF Len(annot) > 0
        THEN IF annot[1] # "(" /\ annot[1] # " "
             THEN rsi \o <<" ">> \o annot
             ELSE rsi \o annot
        ELSE rsi

\* rs_for_gene: the displays of the rsIDs of gene, in rsids order
RECURSIVE RsForGene(_, _, _)
RsForGene(gene, rs, gm) ==
    IF Len(rs) = 0 THEN <<>>
    ELSE (IF gm[rs[1]].gene = gene THEN <<RsDisplay(rs[1], gm[rs[1]])>> ELSE <<>>)
         \o RsForGene(gene, Tail(rs), gm)

\* the loop over genes_ordered, idx being the next number to give
RECURSIVE GeneEntries(_, _, _, _)
GeneEntries(genes, rs, gm, idx) ==
    IF Len(genes) = 0 THEN <<>>
    ELSE LET rs_for_gene == RsForGene(genes[1], rs, gm)
         IN  IF Len(rs_for_gene) = 0
             THEN GeneEntries(Tail(genes), rs, gm, idx)
             ELSE <<IntToStr(idx) \o <<":">> \o genes[1] \o <<"(">>
                      \o Join(rs_for_gene, <<",", " ">>) \o <<")">>>>
                  \o GeneEntries(Tail(genes), rs, gm, idx + 1)

\* the fallback when no gene was found: "<i>:<rsID>"
FallbackEntries(rs) == [i \in 1..Len(rs) |-> IntToStr(i) \o <<":">> \o rs[i]]

NumberedEntries(rs, gm, genes) ==
    IF Len(genes) > 0 THEN GeneEntries(genes, rs, gm, 1) ELSE FallbackEntries(rs)

GeneCell(rs, gm, genes) == Join(NumberedEntries(rs, gm, genes), <<"\n">>)
SnpOnlyList(rs) == Join(rs, <<"\n">>)

\* one pass of the loop over or_pvals: the three lines of an entry
EntryLabel(item) ==
    LET rsi == IF item.rsid = None THEN <<>> ELSE item.rsid
    IN  IF Len(rsi) > 0 THEN rsi ELSE <<"O", "R", ":">> \o item.OR
EntryP(item) == IF item.P = None THEN <<>> ELSE item.P
ReportedAssocLine(item) ==
    EntryLabel(item) \o <<" ", "(", "O", "R", "=">> \o item.OR \o <<")", " ", "P", "=">> \o EntryP(item)
EffectDirLine(item) ==
    LET eff == IF Len(item.OR) > 0 THEN infer_effect_direction(item.OR, EntryP(item)) ELSE <<>>
    IN  IF Len(eff) > 0 THEN EntryLabel(item) \o <<" ", Arrow, " ">> \o eff
        ELSE EntryLabel(item) \o <<" ", Arrow, " ", "U", "n", "k", "n", "o", "w", "n">>
PValueLine(item) == EntryLabel(item) \o <<" ", Arrow, " ">> \o EntryP(item)

\* re.search(rsi + r'[^.]{0,80}P\s*[=<>]\s*([0-9\.>]+)', big, re.I) tried at i:
\* <<start, end>> of the group; the filler is greedy, the last P within reach wins
PFallbackAt(s, rsi, i) ==
    LET Last(ps) == IF MatchAtI(rsi, s, i) /\ ps # {} THEN PTailAt(s, Max(ps)) ELSE <<0, 0>>
        Reach(a, top) == Last({p \in a..top : PTailAt(s, p)[1] > 0})
        Limit(a, lim) == Reach(a, IF lim > a + PFallbackMaxGap THEN a + PFallbackMaxGap ELSE lim)
        Filler(a) == Limit(a, RunEndExcept(s, a, {"."}) + 1)
    IN  Filler(i + Len(rsi))

\* the p-value found for rsi by the fallback, None if there is none
PFallback(s, rsi) ==
    LET Group(g) == SubSeq(s, g[1], g[2])
        First(ms) == IF ms = {} THEN None ELSE Group(PFallbackAt(s, rsi, Min(ms)))
    IN  First({i \in 1..Len(s) : PFallbackAt(s, rsi, i)[1] > 0})

\* the fallback loop of lines 363-368: the rsIDs that have a p-value, in rsids order
RECURSIVE FallbackHits(_, _)
FallbackHits(s, rs) ==
    LET Hit(p) == IF p # None THEN <<<<rs[1], p>>>> ELSE <<>>
    IN  IF Len(rs) = 0 THEN <<>>
        ELSE Hit(PFallback(s, rs[1])) \o FallbackHits(s, Tail(rs))

ReportedAssocLines(s, rs, or_pvals) ==
    IF Len(or_pvals) > 0 THEN [j \in 1..Len(or_pvals) |-> ReportedAssocLine(or_pvals[j])]
    ELSE LET hits == FallbackHits(s, rs)
         IN  [j \in 1..Len(hits) |-> hits[j][1] \o <<" ", Arrow, " ", "P", "=">> \o hits[j][2]]
EffectDirLines(or_pvals) == [j \in 1..Len(or_pvals) |-> EffectDirLine(or_pvals[j])]
PValueLines(s, rs, or_pvals) ==
    IF Len(or_pvals) > 0 THEN [j \in 1..Len(or_pvals) |-> PValueLine(or_pvals[j])]
    ELSE LET hits == FallbackHits(s, rs)
         IN  [j \in 1..Len(hits) |-> hits[j][1] \o <<" ", Arrow, " ">> \o hits[j][2]]

\* one line of allele_freq_cell; gene_map.get(r, {}).get('gene', '') is the stored
\* value of the key 'gene', which is None when no pattern matched
AlleleFreqLine(r, gm, freqs) ==
    Str(gm[r].gene) \o <<" ", "(">> \o r \o <<")", " ", Arrow, " ">> \o Str(freqs[r])

RECURSIVE AlleleFreqLines(_, _, _)
AlleleFreqLines(rs, gm, freqs) ==
    IF Len(rs) = 0 THEN <<>>
    ELSE (IF freqs[rs[1]] # None /\ Len(freqs[rs[1]]) > 0
          THEN <<AlleleFreqLine(rs[1], gm, freqs)>> ELSE <<>>)
         \o AlleleFreqLines(Tail(rs), gm, freqs)

AlleleFreqCell(rs, gm, freqs) == Join(AlleleFreqLines(rs, gm, freqs), <<"\n">>)

Quality(s) ==
    IF OccurrencesI(<<"S", "I", "F", "T">>, s) # {} \/ OccurrencesI(<<"P", "o", "l", "y", "P", "h", "e", "n">>, s) # {}
    THEN <<"1", ":", "S", "I", "F", "T", " ", "s", "c", "o", "r", "e", " ", "2", ":", "P", "o", "l", "y", "P", "h", "e", "n", " ", "s", "c", "o", "r", "e">>
    ELSE <<>>

Comments(design) ==
    IF Contains(<<"c", "a", "s", "e", " ", "c", "o", "n", "t", "r", "o", "l">>, Lower(design))
    THEN <<"C", "a", "s", "e", "-", "c", "o", "n", "t", "r", "o", "l", " ", "s", "t", "u", "d", "y", ";", " ", "s", "a", "m", "p", "l", "e", " ", "s", "i", "z", "e", " ", "e", "s", "t", "i", "m", "a", "t", "i", "o", "n", " ", "a", "n", "d", " ", "r", "e", "p", "l", "i", "c", "a", "t", "i", "o", "n", " ", "r", "e", "q", "u", "i", "r", "e", "d", ".">>
    ELSE <<"P", "a", "r", "s", "e", "d", " ", "h", "e", "u", "r", "i", "s", "t", "i", "c", "a", "l", "l", "y", " ", "f", "r", "o", "m", " ", "a", "b", "s", "t", "r", "a", "c", "t", "/", "m", "e", "t", "a", ".">>

AuthorDisplay(m) == IF Len(m.first_author) > 0 THEN m.first_author ELSE m.authors_list

DoiPmid(m) ==
    IF Len(m.pmid) > 0 \/ Len(m.doi) > 0
    THEN Strip(<<"P", "M", "I", "D", ":", " ">> \o m.pmid \o <<"\n", "D", "O", "I", ":", " ">> \o m.doi)
    ELSE <<>>

\* the cells of the row that do not depend on the allele frequencies, from the
\* metadata m, the corpus big, the rsIDs rs with their gene_map gm and genes, and
\* the values of or_pvals and design of lines 346 and 342
CellsOf(m, big, rs, gm, genes, or_pvals, design) ==
    "Author(s)" :> AuthorDisplay(m)
    @@ "Title" :> m.title
    @@ "Year" :> m.year
    @@ "Journal" :> m.journal
    @@ "DOI/PMID" :> DoiPmid(m)
    @@ "Study Design" :> design
    @@ "Region" :> find_region(big)
    @@ "Sample Size (Cases)" :> find_sample_size(big)
    @@ "Mean Age" :> find_mean_age(big)
    @@ "Gene" :> GeneCell(rs, gm, genes)
    @@ "SNP/Variant" :> SnpOnlyList(rs)
    @@ "Genotyping Method" :> find_genotyping_method(big)
    @@ "Reported Association" :> Join(ReportedAssocLines(big, rs, or_pvals), <<"\n">>)
    @@ "Effect Direction" :> Join(EffectDirLines(or_pvals), <<"\n">>)
    @@ "p-value" :> Join(PValueLines(big, rs, or_pvals), <<"\n">>)
    @@ "Quality Score (NOS)" :> Quality(big)
    @@ "Comments/Remarks" :> Comments(design)

\* the same, from the result ann = [rsids, gene_map, genes_ordered] of
\* extract_rsids_and_genes_with_annotations
RowCells(m, big, ann) ==
    CellsOf(m, big, ann.rsids, ann.gene_map, ann.genes_ordered,
            extract_or_pvals(big), find_study_design(big))

\* allele_freq_cell of line 370
AlleleFreqCellOf(big, ann, tie_up) ==
    AlleleFreqCell(ann.rsids, ann.gene_map, extract_allele_freqs(big, ann.rsids, tie_up))

\* the row dict of lines 414-433
Row(cells, allele_freq_cell) == cells @@ "Allele Frequency (Cases)" :> allele_freq_cell

RowOf(m, big, tie_up) ==
    LET Annotated(ann) == Row(RowCells(m, big, ann), AlleleFreqCellOf(big, ann, tie_up))
    IN  Annotated(extract_rsids_and_genes_with_annotations(big))

\* big of line 339: the metadata, the abstract and the page text joined by spaces
Big(m, abstract, page_text) ==
    Join(<<m.title, m.authors_list, m.journal, m.doi, abstract, page_text>>, <<" ">>)

DEFAULT_COLS == <<"Author(s)", "Title", "Year", "Journal", "DOI/PMID", "Study Design",
    "Region", "Sample Size (Cases)", "Mean Age", "Gene", "SNP/Variant",
    "Genotyping Method", "Allele Frequency (Cases)", "Reported Association",
    "Effect Direction", "p-value", "Quality Score (NOS)", "Comments/Remarks">>

(***************************************************************************)
(* Metadata extractor: get_meta and extract_basic_metadata                 *)
(*                                                                         *)
(* A parsed page (soup) is the record of what the calls of the extractor   *)
(* find in it:                                                             *)
(*   meta_name, meta_property : key -> the content attribute of the first  *)
(*       <meta name=key> / <meta property=key>, None when there is no such *)
(*       tag or the tag has no content attribute                           *)
(*   title   : NoTag when the page has no <title>, else TitleTag(s), s     *)
(*       being None for a <title> without a text child                     *)
(*   text    : soup.get_text(' ')                                          *)
(*   authors : the content attributes of the <meta name=citation_author>   *)
(*       tags, None for a tag without one                                  *)
(*   candidate : None when select_one finds no author container, else the  *)
(*       get_text(' ', strip=True) of its a/span/li tags                   *)
(*   anchors : the get_text(' ', strip=True) of the <a> tags of the page   *)
(***************************************************************************)
NoTag == [present |-> FALSE, string |-> None]
TitleTag(s) == [present |-> TRUE, string |-> s]

\* what a raised exception leaves in place of a value
Raised(exception) == <<"raised", exception>>
IsRaised(v) == Len(v) = 2 /\ v[1] = "raised"

\* bool(v) of a value that is None or a str (or a list)
Truthy(v) == v # None /\ Len(v) > 0

\* get_meta(soup, key)
get_meta(page, key) ==
    IF Truthy(page.meta_name[key]) THEN Strip(page.meta_name[key])
    ELSE IF Truthy(page.meta_property[key]) THEN Strip(page.meta_property[key])
    ELSE None

\* a or b, for values that raise nothing
Or(a, b) == IF Truthy(a) THEN a ELSE b

\* soup.title.string.strip() if soup.title else '': None has no strip
TitleElement(page) ==
    IF ~page.title.present THEN <<>>
    ELSE IF page.title.string = None THEN Raised("AttributeError")
    ELSE Strip(page.title.string)

\* the first run of four digits of s after position i - 1, <<>> if none
FourDigitsFrom(s, i) ==
    LET First(hits) == IF hits = {} THEN <<>> ELSE SubSeq(s, Min(hits), Min(hits) + 3)
    IN  First({j \in i..(Len(s) - 3) : \A k \in j..(j + 3) : IsDigit(s[k])})

\* re.search(r'(\d{4})', date): group 1, <<>> when there is no match
YearOfDate(date) == FourDigitsFrom(date, 1)

Copyright == "(c)"

\* re.search(r'(c)\s*(\d{4})', t), (c) being the copyright sign: group 1, <<>>
\* when there is no match
YearOfCopyright(t) ==
    LET DigitsAt(b) == b + 3 <= Len(t) /\ \A k \in b..(b + 3) : IsDigit(t[k])
        Group(b) == SubSeq(t, b, b + 3)
        First(hits) == IF hits = {} THEN <<>> ELSE Group(SpaceRunEnd(t, Min(hits) + 1) + 1)
    IN  First({j \in 1..Len(t) : t[j] = Copyright /\ DigitsAt(SpaceRunEnd(t, j + 1) + 1)})

\* lines 115-122
YearOf(page, date) ==
    LET FromText(year) == IF Len(year) > 0 THEN year ELSE YearOfCopyright(page.text)
    IN  FromText(IF Len(date) > 0 THEN YearOfDate(date) ELSE <<>>)

\* [A-Z][a-z]+ at i: its end, 0 if it does not match
RECURSIVE LowerRunEnd(_, _)
LowerRunEnd(s, i) ==
    IF i <= Len(s) /\ s[i] \in LowerCase THEN LowerRunEnd(s, i + 1) ELSE i - 1
NameWordEnd(s, i) ==
    IF i >= 1 /\ i <= Len(s) /\ s[i] \in UpperCase /\ LowerRunEnd(s, i + 1) >= i + 1
    THEN LowerRunEnd(s, i + 1)
    ELSE 0

\* (?:\s+[A-Z][a-z]+)+$ from position i on, n being the number of words so far
RECURSIVE NameTail(_, _, _)
NameTail(s, i, n) ==
    LET Word(e) == e > 0 /\ NameTail(s, e + 1, n + 1)
        Spaces(b) == b > i /\ Word(NameWordEnd(s, b))
    IN  IF i > Len(s) THEN n >= 2 ELSE Spaces(SpaceRunEnd(s, i) + 1)

\* re.match(r'^[A-Z][a-z]+(?:\s+[A-Z][a-z]+)+$', txt)
LooksLikeName(txt) ==
    LET First(e) == e > 0 /\ NameTail(txt, e + 1, 1)
    IN  First(NameWordEnd(txt, 1))

\* the first text of txts, among the first limit, that is not empty and looks
\* like a person name; <<>> if none
FirstName(txts, limit) ==
    LET First(hits) == IF hits = {} THEN <<>> ELSE txts[Min(hits)]
    IN  First({i \in 1..Len(txts) : i <= limit /\ Len(txts[i]) > 0 /\ LooksLikeName(txts[i])})

CandidateLimit == 30
AnchorLimit == 120

\* authors_meta of line 125
RECURSIVE AuthorsMeta(_)
AuthorsMeta(contents) ==
    IF Len(contents) = 0 THEN <<>>
    ELSE (IF Truthy(contents[1]) THEN <<Strip(contents[1])>> ELSE <<>>)
         \o AuthorsMeta(Tail(contents))

\* first_author after the fallbacks of lines 130-146
FirstAuthor(page, authors_meta) ==
    LET Anchors(first) == IF Len(first) > 0 THEN first ELSE FirstName(page.anchors, AnchorLimit)
        Container(first) ==
            Anchors(IF Len(first) = 0 /\ page.candidate # None
                    THEN FirstName(page.candidate, CandidateLimit) ELSE first)
    IN  Container(IF Len(authors_meta) > 0 THEN authors_meta[1] ELSE <<>>)

\* html.unescape(s) for the named references amp, lt, gt and quot, which like all
\* references of HTML 4 are also replaced when their semicolon is missing
Entities == << <<<<"a", "m", "p">>, "&">>, <<<<"l", "t">>, "<">>, <<<<"g", "t">>, ">">>, <<<<"q", "u", "o", "t">>, "\"">> >>
EntityAt(s, i) ==
    LET Named(hits) == IF hits = {} THEN 0 ELSE Min(hits)
    IN  IF i <= Len(s) /\ s[i] = "&"
        THEN Named({k \in 1..Len(Entities) : MatchAt(Entities[k][1], s, i + 1)})
        ELSE 0
RECURSIVE unescape(_, _)
unescape(s, i) ==
    LET Replaced(k, e) ==
            <<Entities[k][2]>> \o unescape(s, IF e <= Len(s) /\ s[e] = ";" THEN e + 1 ELSE e)
        At(k) == IF k = 0 THEN <<s[i]>> \o unescape(s, i + 1)
                 ELSE Replaced(k, i + 1 + Len(Entities[k][1]))
    IN  IF i > Len(s) THEN <<>> ELSE At(EntityAt(s, i))
html_unescape(s) == unescape(s, 1)

\* the mapping of lines 150-158
MetaMapping(title, first_author, authors_str, journal, doi, pmid, year) ==
    [title |-> IF Truthy(title) THEN html_unescape(title) ELSE <<>>,
     first_author |-> first_author,
     authors_list |-> Or(authors_str, first_author),
     journal |-> IF Truthy(journal) THEN html_unescape(journal) ELSE <<>>,
     doi |-> Or(doi, <<>>),
     pmid |-> Or(pmid, <<>>),
     year |-> Or(year, <<>>)]

\* lines 125-158, once the title is known
WithAuthors(page, title, authors_meta) ==
    LET Mapping(first_author, date) ==
            MetaMapping(title, first_author,
                Or(IF Len(authors_meta) > 0 THEN Join(authors_meta, <<",", " ">>) ELSE <<>>,
                   first_author),
                Or(get_meta(page, "citation_journal_title"),
                   Or(get_meta(page, "citation_journal"),
                      Or(get_meta(page, "og:site_name"), <<>>))),
                Or(get_meta(page, "citation_doi"), Or(get_meta(page, "DC.identifier"), <<>>)),
                Or(get_meta(page, "citation_pmid"), <<>>),
                YearOf(page, date))
    IN  Mapping(FirstAuthor(page, authors_meta),
                Or(get_meta(page, "citation_publication_date"),
                   Or(get_meta(page, "citation_date"), <<>>)))

\* the title of line 110: the operands of or are evaluated from the left, each
\* only when those before it are falsy
TitleOf(page) ==
    LET Alternate(t) == IF Truthy(t) THEN t ELSE TitleElement(page)
        Structured(t) == IF Truthy(t) THEN t ELSE Alternate(get_meta(page, "og:title"))
    IN  Structured(get_meta(page, "citation_title"))

\* extract_basic_metadata(soup): the mapping it returns, or the exception it raises
extract_basic_metadata(page) ==
    LET Titled(title) == IF IsRaised(title) THEN [raised |-> title[2]]
                         ELSE WithAuthors(page, title, AuthorsMeta(page.authors))
    IN  Titled(TitleOf(page))
(***************************************************************************)
(* Inputs: corpora are phrases joined by " and "                           *)
(***************************************************************************)
SeqsUpTo(S, n) == UNION {[1..k -> S] : k \in 0..n}
Corpus(ps) == Join(ps, <<" ", "a", "n", "d", " ">>)

\* phrases that carry no rsID token: too few digits, or no word boundary
PlainPhrases == {
    <<"r", "s", "1", "2">>,
    <<"x", "r", "s", "7", "4", "5", "9", "7", "5">>,
    <<"T", "C", "F", "7", "L", "2", " ", "(", "P", "r", "o", "1", "2", "A", "l", "a", ")">> }

\* phrases that mention variants
VariantPhrases == {
    <<"P", "P", "A", "R", "G", " ", "(", "r", "s", "1", "8", "0", "1", "2", "8", "2", " ", "(", "P", "r", "o", "1", "2", "A", "l", "a", ")", ")">>,
    <<"H", "N", "F", "4", "A", " ", "(", "r", "s", "7", "4", "5", "9", "7", "5", ")">>,
    <<"G", "L", "I", "S", "3", "(", "r", "s", "6", "4", "1", "5", "7", "8", "8", ",", " ", "r", "s", "8", "0", "6", "0", "5", "2", ")">>,
    <<"r", "s", "6", "4", "1", "5", "7", "8", "8", "/", "G", "L", "I", "S", "3">>,
    <<"G", "L", "I", "S", "3", " ", "r", "s", "8", "0", "6", "0", "5", "2", ",", " ", "H", "N", "F", "4", "A", " ", "r", "s", "7", "4", "5", "9", "7", "5">>,
    <<"v", "a", "r", "i", "a", "n", "t", " ", "r", "s", "1", "2", "3", " ", "0", ".", "2", "5">>,
    <<"R", "S", "1", "2", "3">> }

RowPhrases == PlainPhrases \cup VariantPhrases

EmptyMeta == [title |-> <<>>, first_author |-> <<>>, authors_list |-> <<>>,
              journal |-> <<>>, doi |-> <<>>, pmid |-> <<>>, year |-> <<>>]
FullMeta == [title |-> <<"T", "2", "D", "M", " ", "S", "N", "P", "s">>, first_author |-> <<"A", "n", "n", " ", "L", "e", "e">>,
             authors_list |-> <<"A", "n", "n", " ", "L", "e", "e", ",", " ", "B", "o", " ", "N", "g">>, journal |-> <<"J", "G">>,
             doi |-> <<"1", "0", ".", "1", "/", "x">>, pmid |-> <<"1", "2", "3">>, year |-> <<"2", "0", "2", "0">>]
Metas == {EmptyMeta, FullMeta}

\* values of the variables a specification does not use
IdleSoup == soup = <<>>
IdleText == parts = <<>> /\ text = <<>> /\ IdleSoup
IdleRow ==
    /\ meta = EmptyMeta
    /\ rsids = <<>> /\ gene_map = <<>> /\ genes_ordered = <<>> /\ row = <<>>
IdleHeur == sample_size = <<>> /\ study_design = <<>> /\ region = <<>>
IdleEffect == or_str = <<>> /\ p_str = <<>> /\ effect = <<>>
\* no status check has been made yet
NotChecked == [internet |-> FALSE, readme |-> None]

IdleApp ==
    /\ started = FALSE /\ app_enabled = FALSE /\ excel_path = None /\ url_var = <<>>
    /\ status = <<>> /\ files = <<>> /\ log = <<>> /\ file0 = <<>> /\ appended = <<>>
    /\ startup_env = NotChecked /\ checked_env = NotChecked

(***************************************************************************)
(* parse_article applied to a parsed page.  The page is given by what       *)
(* extract_basic_metadata (meta) and get_abstract_text (text) return for    *)
(* it; its abstract comes from a meta tag and it has no visible text, so    *)
(* that soup.get_text(' ') is empty.                                        *)
(***************************************************************************)
page_text == <<>>

InitRow ==
    /\ parts \in SeqsUpTo(RowPhrases, MaxPhrases)
    /\ text = Corpus(parts)
    /\ IdleSoup
    /\ meta \in Metas
    /\ pc = {}
    /\ rsids = <<>> /\ gene_map = <<>> /\ genes_ordered = <<>> /\ row = <<>>
    /\ IdleHeur /\ IdleEffect /\ IdleApp

\* lines 339-434 of parse_article
ParseArticle ==
    /\ "parse_article" \notin pc
    /\ \E big \in {Big(meta, text, page_text)} :
       \E ann \in {extract_rsids_and_genes_with_annotations(big)} :
           /\ rsids' = ann.rsids
           /\ gene_map' = ann.gene_map
           /\ genes_ordered' = ann.genes_ordered
           /\ \E cells \in {RowCells(meta, big, ann)} :
                  \E tie_up \in BOOLEAN :
                      row' = Row(cells, AlleleFreqCellOf(big, ann, tie_up))
    /\ pc' = pc \cup {"parse_article"}
    /\ UNCHANGED <<textVars, meta, heurVars, effectVars, appVars>>

NextRow == ParseArticle
SpecRow == InitRow /\ [][NextRow]_vars

(***************************************************************************)
(* infer_effect_direction applied to the strings extract_or_pvals hands    *)
(* over: an odds ratio [0-9]+\.[0-9]+ and a p-value [0-9\.>]+, or no       *)
(* p-value.  Each string is listed with what it says, read by hand.        *)
(***************************************************************************)
\* odds ratios, with how each compares with 1
OrTable == {
    [s |-> <<"2", ".", "1">>,  cmp |-> "above"],
    [s |-> <<"1", "0", ".", "5">>, cmp |-> "above"],
    [s |-> <<"1", ".", "0", "1">>, cmp |-> "above"],
    [s |-> <<"0", ".", "5">>,  cmp |-> "below"],
    [s |-> <<"0", ".", "9", "9">>, cmp |-> "below"],
    [s |-> <<"0", "0", ".", "9">>, cmp |-> "below"],
    [s |-> <<"1", ".", "0">>,  cmp |-> "equal"],
    [s |-> <<"1", ".", "0", "0">>, cmp |-> "equal"] }

\* p-values: absent, a number (after removing '>') above 0.05 or at most 0.05, or
\* no number at all
PTable == {
    [s |-> None,      says |-> "absent"],
    [s |-> <<>>,      says |-> "absent"],
    [s |-> <<"0", ".", "0", "3">>,  says |-> "at most"],
    [s |-> <<"0", ".", "0", "5">>,  says |-> "at most"],
    [s |-> <<"0", ".", "0", "5", "0">>, says |-> "at most"],
    [s |-> <<">", "0", ".", "0", "5">>, says |-> "at most"],
    [s |-> <<"0", ".">>,    says |-> "at most"],
    [s |-> <<"0", ".", "0", "5", "1">>, says |-> "above"],
    [s |-> <<"0", ".", "2">>,   says |-> "above"],
    [s |-> <<">", "0", ".", "2">>,  says |-> "above"],
    [s |-> <<".", "5">>,    says |-> "above"],
    [s |-> <<"5">>,     says |-> "above"],
    [s |-> <<"0", ".", "2", ".">>,  says |-> "no number"],
    [s |-> <<">">>,     says |-> "no number"],
    [s |-> <<".">>,     says |-> "no number"] }

InitEffect ==
    /\ or_str \in {o.s : o \in OrTable}
    /\ p_str \in {p.s : p \in PTable}
    /\ effect = <<>>
    /\ pc = {}
    /\ IdleText /\ IdleRow /\ IdleHeur /\ IdleApp

InferEffect ==
    /\ "infer_effect_direction" \notin pc
    /\ effect' = infer_effect_direction(or_str, p_str)
    /\ pc' = pc \cup {"infer_effect_direction"}
    /\ UNCHANGED <<textVars, rowVars, heurVars, or_str, p_str, appVars>>

NextEffect == InferEffect
SpecEffect == InitEffect /\ [][NextEffect]_vars

\* the marker of an odds ratio by its comparison with 1
MarkerOf(cmp) ==
    IF cmp = "above" THEN <<"R", "i", "s", "k", " ", UpArrow>>
    ELSE IF cmp = "below" THEN <<"R", "i", "s", "k", " ", DownArrow>>
    ELSE <<"N", "o", " ", "c", "h", "a", "n", "g", "e">>

\* C5: infer_effect_direction gives the increased-risk marker for an odds ratio
\* above 1, the decreased-risk marker below 1 and "No change" at 1, except that a
\* p-value that is present and whose number, after removing '>', exceeds 0.05
\* gives the not-significant marker whatever the odds ratio; a p-value of at most
\* 0.05, an absent one and one that is no number leave the marker of the odds
\* ratio.  OR 2.1 with P 0.03 gives increased risk, OR 0.5 with P 0.2 gives not
\* significant.
C5_EffectDirection ==
    "infer_effect_direction" \in pc =>
        /\ \A o \in OrTable, p \in PTable :
               (or_str = o.s /\ p_str = p.s) =>
                   effect = IF p.says = "above" THEN <<"N", "o", " ", "s", "i", "g", "n", "i", "f", "i", "c", "a", "n", "t", " ", "e", "f", "f", "e", "c", "t", " ", "(", "n", "s", ")">>
                            ELSE MarkerOf(o.cmp)
        /\ (or_str = <<"2", ".", "1">> /\ p_str = <<"0", ".", "0", "3">>) => effect = <<"R", "i", "s", "k", " ", UpArrow>>
        /\ (or_str = <<"0", ".", "5">> /\ p_str = <<"0", ".", "2">>) => effect = <<"N", "o", " ", "s", "i", "g", "n", "i", "f", "i", "c", "a", "n", "t", " ", "e", "f", "f", "e", "c", "t", " ", "(", "n", "s", ")">>

\* C5 happens: the p-value overrides a decreased risk
C5_Override ==
    /\ "infer_effect_direction" \in pc
    /\ or_str = <<"0", ".", "5">> /\ p_str = <<"0", ".", "2">>
    /\ effect = <<"N", "o", " ", "s", "i", "g", "n", "i", "f", "i", "c", "a", "n", "t", " ", "e", "f", "f", "e", "c", "t", " ", "(", "n", "s", ")">>

(***************************************************************************)
(* find_sample_size applied to a corpus.  Each phrase is listed with the   *)
(* rule it is written for (0: none), the value of that rule, and its       *)
(* free-standing numbers of two to six digits, read by hand.               *)
(***************************************************************************)
SizePhrases == {
    [s |-> <<"n", "=", "4", "5", "0", " ", "p", "a", "r", "t", "i", "c", "i", "p", "a", "n", "t", "s">>,               rule |-> 1, value |-> 450, free |-> {450}],
    [s |-> <<"N", " ", "=", " ", "9", "6">>,                           rule |-> 1, value |-> 96,  free |-> {96}],
    [s |-> <<"s", "a", "m", "p", "l", "e", " ", "s", "i", "z", "e", " ", "o", "f", " ", "1", "2", "0">>,               rule |-> 2, value |-> 120, free |-> {120}],
    [s |-> <<"s", "a", "m", "p", "l", "e", " ", "s", "i", "z", "e", " ", "7", "5">>,                   rule |-> 2, value |-> 75,  free |-> {75}],
    [s |-> <<"2", "0", "0", " ", "T", "2", "D", "M", " ", "c", "a", "s", "e", "s", " ", "a", "n", "d", " ", "c", "o", "n", "t", "r", "o", "l", "s", " ", "e", "a", "c", "h">>, rule |-> 3, value |-> 400, free |-> {200}],
    [s |-> <<"5", "0", "0", " ", "c", "a", "s", "e", "s", " ", "a", "n", "d", " ", "3", "0", "0", " ", "c", "o", "n", "t", "r", "o", "l", "s">>,       rule |-> 4, value |-> 800, free |-> {500, 300}],
    [s |-> <<"6", "0", " ", "s", "u", "b", "j", "e", "c", "t", "s", ",", " ", "4", "0", " ", "c", "o", "n", "t", "r", "o", "l", "s">>,         rule |-> 4, value |-> 100, free |-> {60, 40}],
    [s |-> <<"2", "5", " ", "p", "a", "t", "i", "e", "n", "t", "s">>,                      rule |-> 0, value |-> 0,   free |-> {25}],
    [s |-> <<"1", ",", "2", "0", "0", " ", "g", "e", "n", "o", "m", "e", "s">>,                    rule |-> 0, value |-> 0,   free |-> {1200}],
    [s |-> <<"a", "n", "=", "5", "0">>,                            rule |-> 0, value |-> 0,   free |-> {50}],
    [s |-> <<"r", "s", "1", "2">>,                             rule |-> 0, value |-> 0,   free |-> {}],
    [s |-> <<"9", " ", "l", "o", "c", "i">>,                           rule |-> 0, value |-> 0,   free |-> {}],
    [s |-> <<"1", "2", "3", "4", "5", "6", "7", " ", "r", "e", "a", "d", "s">>,                    rule |-> 0, value |-> 0,   free |-> {}] }

\* the text of a sequence of listed phrases
TextOf(ps) == Corpus([i \in 1..Len(ps) |-> ps[i].s])

InitSize ==
    /\ parts \in SeqsUpTo(SizePhrases, MaxPhrases)
    /\ text = TextOf(parts)
    /\ IdleSoup
    /\ sample_size = <<>> /\ study_design = <<>> /\ region = <<>>
    /\ pc = {}
    /\ IdleRow /\ IdleEffect /\ IdleApp

FindSampleSize ==
    /\ "find_sample_size" \notin pc
    /\ sample_size' = find_sample_size(text)
    /\ pc' = pc \cup {"find_sample_size"}
    /\ UNCHANGED <<textVars, rowVars, study_design, region, effectVars, appVars>>

NextSize == FindSampleSize
SpecSize == InitSize /\ [][NextSize]_vars

\* what the rules say of a sequence of listed phrases: the value of the first
\* phrase of the lowest rule, else the largest free-standing number if it is at
\* least 30, else the empty string
SizeExpected(ps) ==
    LET rules == {ps[i].rule : i \in 1..Len(ps)} \ {0}
        free == UNION {ps[i].free : i \in 1..Len(ps)}
    IN  IF rules # {}
        THEN SizeInt(ps[Min({i \in 1..Len(ps) : ps[i].rule = Min(rules)})].value)
        ELSE IF free # {} /\ Max(free) >= 30 THEN SizeInt(Max(free))
        ELSE SizeEmpty

\* C6: find_sample_size applies its rules in the order n=<number>, "sample size
\* of <number>", "<number> T2DM cases and controls each" (doubled), "<number>
\* cases ... <number> controls" (summed), and only when none matches returns the
\* largest free-standing number of 2 to 6 digits if it is at least 30, else the
\* empty string; "n=450 participants" gives 450, "500 cases and 300 controls"
\* gives 800 and a corpus whose only number is 25 gives the empty string.
C6_SampleSizeRules ==
    "find_sample_size" \in pc =>
        /\ sample_size = SizeExpected(parts)
        /\ text = <<"n", "=", "4", "5", "0", " ", "p", "a", "r", "t", "i", "c", "i", "p", "a", "n", "t", "s">> => sample_size = SizeInt(450)
        /\ text = <<"5", "0", "0", " ", "c", "a", "s", "e", "s", " ", "a", "n", "d", " ", "3", "0", "0", " ", "c", "o", "n", "t", "r", "o", "l", "s">> => sample_size = SizeInt(800)
        /\ text = <<"2", "5", " ", "p", "a", "t", "i", "e", "n", "t", "s">> => sample_size = SizeEmpty

\* C6 happens: a phrase of rule 4 comes first in the text and rule 1 decides
C6_RuleOrder ==
    /\ "find_sample_size" \in pc
    /\ text = <<"5", "0", "0", " ", "c", "a", "s", "e", "s", " ", "a", "n", "d", " ", "3", "0", "0", " ", "c", "o", "n", "t", "r", "o", "l", "s", " ", "a", "n", "d", " ", "n", "=", "4", "5", "0", " ", "p", "a", "r", "t", "i", "c", "i", "p", "a", "n", "t", "s">>
    /\ sample_size = SizeInt(450)

(***************************************************************************)
(* find_study_design and find_region applied to a corpus.  Each phrase is  *)
(* listed with the entries of STUDY_DESIGN_KEYWORDS and of REGION_KEYWORDS *)
(* that occur in it, by their place in the declaration, read by hand.      *)
(***************************************************************************)
DesignPhrases == {
    [s |-> <<"a", " ", "c", "a", "s", "e", "-", "c", "o", "n", "t", "r", "o", "l", " ", "s", "t", "u", "d", "y">>,                designs |-> {1},    regions |-> {}],
    [s |-> <<"C", "a", "s", "e", " ", "C", "o", "n", "t", "r", "o", "l">>,                        designs |-> {1},    regions |-> {}],
    [s |-> <<"s", "y", "s", "t", "e", "m", "a", "t", "i", "c", " ", "r", "e", "v", "i", "e", "w", " ", "o", "f", " ", "c", "o", "h", "o", "r", "t", " ", "s", "t", "u", "d", "i", "e", "s">>, designs |-> {2, 5}, regions |-> {}],
    [s |-> <<"c", "r", "o", "s", "s", "-", "s", "e", "c", "t", "i", "o", "n", "a", "l">>,                     designs |-> {3},    regions |-> {}],
    [s |-> <<"r", "a", "n", "d", "o", "m", "i", "s", "e", "d">>,                          designs |-> {4},    regions |-> {}],
    [s |-> <<"m", "e", "t", "a", " ", "a", "n", "a", "l", "y", "s", "i", "s", " ", "i", "n", " ", "C", "h", "i", "n", "a">>,              designs |-> {5},    regions |-> {9}],
    [s |-> <<"c", "a", "s", "e", " ", "s", "e", "r", "i", "e", "s">>,                         designs |-> {},     regions |-> {}],
    [s |-> <<"f", "r", "o", "m", " ", "I", "n", "d", "i", "a", " ", "o", "r", " ", "P", "u", "n", "j", "a", "b">>,                designs |-> {},     regions |-> {6, 8}],
    [s |-> <<"I", "n", "d", "i", "a", "n", "a">>,                             designs |-> {},     regions |-> {}],
    [s |-> <<"t", "h", "e", " ", "u", "s", "a">>,                             designs |-> {},     regions |-> {10}],
    [s |-> <<"U", "n", "i", "t", "e", "d", " ", "S", "t", "a", "t", "e", "s", " ", "c", "o", "h", "o", "r", "t">>,                designs |-> {2},    regions |-> {11}],
    [s |-> <<"P", "a", "k", "i", "s", "t", "a", "n", "i">>,                           designs |-> {},     regions |-> {}],
    [s |-> <<"i", "n", " ", "P", "a", "k", "i", "s", "t", "a", "n">>,                         designs |-> {},     regions |-> {1}] }

InitDesign ==
    /\ parts \in SeqsUpTo(DesignPhrases, MaxPhrases)
    /\ text = TextOf(parts)
    /\ IdleSoup
    /\ sample_size = <<>> /\ study_design = <<>> /\ region = <<>>
    /\ pc = {}
    /\ IdleRow /\ IdleEffect /\ IdleApp

FindStudyDesign ==
    /\ "find_study_design" \notin pc
    /\ study_design' = find_study_design(text)
    /\ pc' = pc \cup {"find_study_design"}
    /\ UNCHANGED <<textVars, rowVars, sample_size, region, effectVars, appVars>>

FindRegion ==
    /\ "find_region" \notin pc
    /\ region' = find_region(text)
    /\ pc' = pc \cup {"find_region"}
    /\ UNCHANGED <<textVars, rowVars, sample_size, study_design, effectVars, appVars>>

NextDesign == FindStudyDesign \/ FindRegion
SpecDesign == InitDesign /\ [][NextDesign]_vars

\* the labels of STUDY_DESIGN_KEYWORDS in declaration order, written out
DesignLabels == << <<"C", "a", "s", "e", " ", "c", "o", "n", "t", "r", "o", "l">>, <<"C", "o", "h", "o", "r", "t">>, <<"C", "r", "o", "s", "s", "-", "s", "e", "c", "t", "i", "o", "n", "a", "l">>, <<"R", "C", "T">>, <<"M", "e", "t", "a", "-", "a", "n", "a", "l", "y", "s", "i", "s">> >>
\* the place names of REGION_KEYWORDS in declaration order, written out
RegionNames == << <<"P", "a", "k", "i", "s", "t", "a", "n">>, <<"P", "a", "s", "h", "t", "u", "n">>, <<"K", "P", "K">>, <<"K", "h", "y", "b", "e", "r">>, <<"S", "i", "n", "d", "h">>, <<"P", "u", "n", "j", "a", "b">>,
    <<"B", "a", "l", "o", "c", "h", "i", "s", "t", "a", "n">>, <<"I", "n", "d", "i", "a">>, <<"C", "h", "i", "n", "a">>, <<"U", "S", "A">>, <<"U", "n", "i", "t", "e", "d", " ", "S", "t", "a", "t", "e", "s">> >>

DesignsIn(ps) == UNION {ps[i].designs : i \in 1..Len(ps)}
RegionsIn(ps) == UNION {ps[i].regions : i \in 1..Len(ps)}

\* C7: find_study_design and find_region return the entry declared first among
\* the entries that occur in the corpus, wherever they occur, and the empty
\* string only when no entry occurs.
C7_DeclarationOrderWins ==
    /\ "find_study_design" \in pc =>
           study_design = IF DesignsIn(parts) = {} THEN <<>>
                          ELSE DesignLabels[Min(DesignsIn(parts))]
    /\ "find_region" \in pc =>
           region = IF RegionsIn(parts) = {} THEN <<>>
                    ELSE RegionNames[Min(RegionsIn(parts))]

\* C7 happens: "systematic review" comes before "cohort" and "India" before
\* "Punjab" in the text, and the entries declared earlier are returned
C7_LaterInTextWins ==
    /\ pc = {"find_study_design", "find_region"}
    /\ text = <<"s", "y", "s", "t", "e", "m", "a", "t", "i", "c", " ", "r", "e", "v", "i", "e", "w", " ", "o", "f", " ", "c", "o", "h", "o", "r", "t", " ", "s", "t", "u", "d", "i", "e", "s", " ", "a", "n", "d", " ", "f", "r", "o", "m", " ", "I", "n", "d", "i", "a", " ", "o", "r", " ", "P", "u", "n", "j", "a", "b">>
    /\ study_design = <<"C", "o", "h", "o", "r", "t">>
    /\ region = <<"P", "u", "n", "j", "a", "b">>

(***************************************************************************)
(* extract_basic_metadata on its own (specification SpecMeta)              *)
(***************************************************************************)
\* the keys get_meta is asked for by extract_basic_metadata
MetaKeys == {"citation_title", "og:title", "citation_journal_title", "citation_journal",
             "og:site_name", "citation_doi", "DC.identifier", "citation_pmid",
             "citation_publication_date", "citation_date"}
NoMetaTags == [k \in MetaKeys |-> None]

\* the hints of a page, each present, empty or missing
TitleTags == {None, <<>>, <<" ", "T", "2", "D", "M", " ", "&", "a", "m", "p", ";", " ", "S", "N", "P", "s", " ">>}
AlternateTitleTags == {None, <<"O", "G">>}
TitleElements == {NoTag, TitleTag(None), TitleTag(<<" ", "P", "a", "g", "e", " ">>)}
DateTags == {None, <<"2", "0", "2", "0", "/", "0", "1", "/", "0", "5">>, <<"n", ".", "d", ".">>}
PageTexts == {<<>>, <<"A", " ", Copyright, " ", "2", "0", "1", "9", " ", "B">>}
AuthorTags == {<<>>, <<None>>, << <<" ", "A", "n", "n", " ", "L", "e", "e", " ">>, <<"B", "o", " ", "N", "g">> >>}
AuthorContainers == {None, << <<"A", "u", "t", "h", "o", "r", "s">>, <<"C", "y", " ", "D", "a", "y">> >>}
AnchorTexts == {<<>>, << <<"H", "o", "m", "e">>, <<"D", "i", " ", " ", "F", "o", "x">> >>}
IdentifierTags == {
    NoMetaTags,
    [NoMetaTags EXCEPT !["citation_journal"] = <<"J", " ", "&", "l", "t", " ", "G">>,
                       !["DC.identifier"] = <<"1", "0", ".", "1", "/", "x">>,
                       !["citation_pmid"] = <<"1", "2", "3">>] }

Soups ==
    {[meta_name |-> [ids EXCEPT !["citation_title"] = t, !["citation_date"] = d],
      meta_property |-> [NoMetaTags EXCEPT !["og:title"] = og],
      title |-> el, text |-> txt, authors |-> au, candidate |-> c, anchors |-> an] :
        ids \in IdentifierTags, t \in TitleTags, og \in AlternateTitleTags,
        el \in TitleElements, d \in DateTags, txt \in PageTexts, au \in AuthorTags,
        c \in AuthorContainers, an \in AnchorTexts}

InitMeta ==
    /\ soup \in Soups
    /\ parts = <<>> /\ text = <<>>
    /\ pc = {}
    /\ IdleRow /\ IdleHeur /\ IdleEffect /\ IdleApp

\* meta = extract_basic_metadata(soup)
ExtractBasicMetadata ==
    /\ "extract_basic_metadata" \notin pc
    /\ meta' = extract_basic_metadata(soup)
    /\ pc' = pc \cup {"extract_basic_metadata"}
    /\ UNCHANGED <<textVars, rsids, gene_map, genes_ordered, row, heurVars, effectVars, appVars>>

NextMeta == ExtractBasicMetadata
SpecMeta == InitMeta /\ [][NextMeta]_vars

MetaFields == {"title", "first_author", "authors_list", "journal", "doi", "pmid", "year"}

\* C11: extract_basic_metadata never raises: whichever hints are missing or empty,
\* also for a page whose title element has no text, it returns a mapping in which
\* title, first_author, authors_list, journal, doi, pmid and year are all strings.
\* The code does not do this.
C11_MetadataNeverRaises ==
    "extract_basic_metadata" \in pc =>
        /\ "raised" \notin DOMAIN meta
        /\ \A k \in MetaFields : k \in DOMAIN meta /\ meta[k] # None

\* C11, what the code does for a page without a structured or alternate title whose
\* title element has no text: None has no strip, line 110 raises AttributeError
C11_EmptyTitleElementRaises ==
    /\ "extract_basic_metadata" \in pc
    /\ get_meta(soup, "citation_title") = None
    /\ get_meta(soup, "og:title") = None
    /\ soup.title = TitleTag(None)
    /\ meta = [raised |-> "AttributeError"]
(***************************************************************************)
(* Properties of the row (specification SpecRow)                           *)
(***************************************************************************)
Parsed == "parse_article" \in pc

\* str.split('\n')
RECURSIVE SplitLines(_)
SplitLines(s) ==
    IF "\n" \notin Range(s) THEN <<s>>
    ELSE LET i == Min({k \in 1..Len(s) : s[k] = "\n"})
         IN  <<SubSeq(s, 1, i - 1)>> \o SplitLines(SubSeq(s, i + 1, Len(s)))

\* the parts of a line "<number>:<gene>(...)" of the Gene cell
NumberOfLine(l) == SubSeq(l, 1, Min({k \in 1..Len(l) : l[k] = ":"} \cup {Len(l) + 1}) - 1)
GeneOfLine(l) ==
    SubSeq(l, Len(NumberOfLine(l)) + 2, Min({k \in 1..Len(l) : l[k] = "("} \cup {Len(l) + 1}) - 1)

\* the genes gene_map associates with some rsID, and the index in the rsID list of
\* the earliest rsID of a gene
AssociatedGenes == {gene_map[r].gene : r \in DOMAIN gene_map} \ {None}
EarliestRsid(g) ==
    Min({i \in 1..Len(rsids) : gene_map[rsids[i]].gene = g} \cup {Len(rsids) + 1})

DocstringCorpus == <<"P", "P", "A", "R", "G", " ", "(", "r", "s", "1", "8", "0", "1", "2", "8", "2", " ", "(", "P", "r", "o", "1", "2", "A", "l", "a", ")", ")", " ", "a", "n", "d", " ", "H", "N", "F", "4", "A", " ", "(", "r", "s", "7", "4", "5", "9", "7", "5", ")">>
GroupedCorpus == <<"G", "L", "I", "S", "3", "(", "r", "s", "6", "4", "1", "5", "7", "8", "8", ",", " ", "r", "s", "8", "0", "6", "0", "5", "2", ")">>

\* C1: for the corpus "PPARG (rs1801282 (Pro12Ala)) and HNF4A (rs745975)" the Gene
\* cell is exactly the two lines "1:PPARG(rs1801282 (Pro12Ala))" and
\* "2:HNF4A(rs745975)".  The code does not do this.
C1_DocstringGeneCell ==
    (Parsed /\ text = DocstringCorpus)
        => row["Gene"] = <<"1", ":", "P", "P", "A", "R", "G", "(", "r", "s", "1", "8", "0", "1", "2", "8", "2", " ", "(", "P", "r", "o", "1", "2", "A", "l", "a", ")", ")", "\n", "2", ":", "H", "N", "F", "4", "A", "(", "r", "s", "7", "4", "5", "9", "7", "5", ")">>

\* C1, what the code returns for that corpus: the space before the annotation is
\* stripped, and the parenthesis that closes an rsID-only parenthetical is kept as
\* an annotation
C1_ActualGeneCell ==
    /\ Parsed /\ text = DocstringCorpus
    /\ row["Gene"] = <<"1", ":", "P", "P", "A", "R", "G", "(", "r", "s", "1", "8", "0", "1", "2", "8", "2", "(", "P", "r", "o", "1", "2", "A", "l", "a", ")", ")", "\n", "2", ":", "H", "N", "F", "4", "A", "(", "r", "s", "7", "4", "5", "9", "7", "5", " ", ")", ")">>

\* C2: a corpus that mentions GLIS3 with rs6415788 and then with rs806052 in the
\* form "GLIS3(rs6415788, rs806052)" yields the single entry
\* GLIS3(rs6415788, rs806052).  The code does not do this.
C2_GroupedGeneCell ==
    (Parsed /\ text = GroupedCorpus) => row["Gene"] = <<"1", ":", "G", "L", "I", "S", "3", "(", "r", "s", "6", "4", "1", "5", "7", "8", "8", ",", " ", "r", "s", "8", "0", "6", "0", "5", "2", ")">>

\* C2, what the code returns for that corpus: the first pattern takes the whole
\* parenthetical as the annotation of rs6415788, and the third pattern takes the
\* digits of rs6415788 as the gene of rs806052
C2_ActualGeneCell ==
    /\ Parsed /\ text = GroupedCorpus /\ meta = EmptyMeta
    /\ row["Gene"] = <<"1", ":", "G", "L", "I", "S", "3", "(", "r", "s", "6", "4", "1", "5", "7", "8", "8", " ", ",", " ", "r", "s", "8", "0", "6", "0", "5", "2", ")", ")", "\n", "2", ":", "6", "4", "1", "5", "7", "8", "8", "(", "r", "s", "8", "0", "6", "0", "5", "2", ")">>

\* C3: in every Gene cell with at least one gene association the lines are
\* numbered 1..k without gap or repeat, there is one line per distinct gene, and
\* line i precedes line j exactly when the earliest rsID of the gene of line i
\* comes before the earliest rsID of the gene of line j in the rsID list.
C3_GeneLinesInFirstRsidOrder ==
    (Parsed /\ AssociatedGenes # {}) =>
        LET lines == SplitLines(row["Gene"])
            k == Len(lines)
        IN  /\ k = Cardinality(AssociatedGenes)
            /\ \A i \in 1..k :
                   /\ NumberOfLine(lines[i]) = IntToStr(i)
                   /\ GeneOfLine(lines[i]) \in AssociatedGenes
            /\ \A i, j \in 1..k :
                   /\ i # j => GeneOfLine(lines[i]) # GeneOfLine(lines[j])
                   /\ i < j <=> EarliestRsid(GeneOfLine(lines[i]))
                                    < EarliestRsid(GeneOfLine(lines[j]))

\* C3 happens: GLIS3 has the first and the third rsID, HNF4A the second, and
\* GLIS3 is line 1
C3_InterleavedGenes ==
    /\ Parsed
    /\ text = <<"G", "L", "I", "S", "3", " ", "r", "s", "8", "0", "6", "0", "5", "2", ",", " ", "H", "N", "F", "4", "A", " ", "r", "s", "7", "4", "5", "9", "7", "5", " ", "a", "n", "d", " ", "r", "s", "6", "4", "1", "5", "7", "8", "8", "/", "G", "L", "I", "S", "3">>
    /\ rsids = << <<"r", "s", "8", "0", "6", "0", "5", "2">>, <<"r", "s", "7", "4", "5", "9", "7", "5">>, <<"r", "s", "6", "4", "1", "5", "7", "8", "8">> >>
    /\ row["Gene"] = <<"1", ":", "G", "L", "I", "S", "3", "(", "r", "s", "8", "0", "6", "0", "5", "2", ",", " ", "r", "s", "6", "4", "1", "5", "7", "8", "8", ")", "\n", "2", ":", "H", "N", "F", "4", "A", "(", "r", "s", "7", "4", "5", "9", "7", "5", ")">>

\* C4: the rsID list, which is also the SNP/Variant cell, holds each rsID once in
\* canonical lowercase form, two occurrences that differ only in letter case being
\* one variant.  The code does not do this.
C4_CanonicalRsids ==
    Parsed =>
        /\ \A i \in 1..Len(rsids) : rsids[i] = Lower(rsids[i])
        /\ \A i, j \in 1..Len(rsids) : i # j => Lower(rsids[i]) # Lower(rsids[j])
        /\ row["SNP/Variant"] = Join(rsids, <<"\n">>)

\* C4, what the code returns: both spellings, as written
C4_BothSpellings ==
    /\ Parsed /\ text = <<"R", "S", "1", "2", "3", " ", "a", "n", "d", " ", "v", "a", "r", "i", "a", "n", "t", " ", "r", "s", "1", "2", "3", " ", "0", ".", "2", "5">>
    /\ rsids = << <<"R", "S", "1", "2", "3">>, <<"r", "s", "1", "2", "3">> >>
    /\ row["SNP/Variant"] = <<"R", "S", "1", "2", "3", "\n", "r", "s", "1", "2", "3">>

\* C8: for every corpus without an rsID token the Gene cell and the SNP/Variant
\* cell are both the empty string.  The corpora without an rsID token are those
\* made of the phrases of PlainPhrases.
C8_NoRsidEmptyCells ==
    (Parsed /\ \A i \in 1..Len(parts) : parts[i] \in PlainPhrases)
        => row["Gene"] = <<>> /\ row["SNP/Variant"] = <<>>

\* C8 happens: a corpus of two near misses, with the metadata of a real page
C8_NearMisses ==
    /\ Parsed /\ meta = FullMeta
    /\ parts = << <<"x", "r", "s", "7", "4", "5", "9", "7", "5">>, <<"r", "s", "1", "2">> >>
    /\ row["Gene"] = <<>> /\ row["SNP/Variant"] = <<>>

\* C10: no field of the row contains a null marker: an absent value is the empty
\* string, never the text "None", also in the allele-frequency cell for an rsID
\* with a frequency and no gene.  The code does not do this.
C10_NoNullMarker ==
    Parsed =>
        \A c \in DOMAIN row \ {"Sample Size (Cases)"} :
            row[c] # None /\ ~Contains(<<"N", "o", "n", "e">>, row[c])

\* C10, what the code returns for an rsID with a frequency and no gene
C10_NoneInAlleleCell ==
    /\ Parsed /\ text = <<"v", "a", "r", "i", "a", "n", "t", " ", "r", "s", "1", "2", "3", " ", "0", ".", "2", "5">>
    /\ row["Allele Frequency (Cases)"] = <<"N", "o", "n", "e", " ", "(", "r", "s", "1", "2", "3", ")", " ", Arrow, " ", "0", ".", "2", "5">>

(***************************************************************************)
(* parse_article on association statements (specification SpecAssoc)       *)
(***************************************************************************)
AssocPhrases == {
    <<"r", "s", "1", "2", "3", " ", "O", "R", " ", "=", " ", "0", ".", "5", ",", " ", "P", " ", "=", " ", "0", ".", "2">>,
    <<"r", "s", "1", "2", "3", " ", "(", "O", "R", " ", "=", " ", "0", ".", "5", ",", " ", "P", " ", "=", " ", "0", ".", "2", ")">>,
    <<"r", "s", "4", "5", "6", " ", "O", "R", "=", "2", ".", "1", " ", "P", "=", "0", ".", "0", "3">>,
    <<"r", "s", "4", "5", "6", " ", "[", "x", "]", " ", "(", "O", "R", " ", "0", ".", "8", ";", " ", "P", ">", "0", ".", "3", ")">>,
    <<"r", "s", "1", "2", "3", " ", "O", "R", " ", "1", ".", "5">>,
    <<"o", "d", "d", "s", " ", "r", "a", "t", "i", "o", ":", " ", "1", ".", "0">>,
    <<"P", " ", "<", " ", "0", ".", "0", "1">>,
    <<"n", "o", " ", "e", "f", "f", "e", "c", "t">> }

InitAssoc ==
    /\ parts \in SeqsUpTo(AssocPhrases, MaxPhrases)
    /\ text = Corpus(parts)
    /\ IdleSoup
    /\ meta = EmptyMeta
    /\ pc = {}
    /\ rsids = <<>> /\ gene_map = <<>> /\ genes_ordered = <<>> /\ row = <<>>
    /\ IdleHeur /\ IdleEffect /\ IdleApp

NextAssoc == ParseArticle
SpecAssoc == InitAssoc /\ [][NextAssoc]_vars

TrailingPCorpus == <<"r", "s", "1", "2", "3", " ", "O", "R", " ", "=", " ", "0", ".", "5", ",", " ", "P", " ", "=", " ", "0", ".", "2">>

\* C13: extract_or_pvals records the p-value that follows the odds-ratio value
\* within 80 characters without a closing parenthesis in between, not only one
\* that follows immediately: for "rs123 OR = 0.5, P = 0.2" the entry kept for
\* rs123 has OR 0.5 and P 0.2, and its effect line is the not-significant marker.
\* The code does not do this.
C13_TrailingPRecorded ==
    (Parsed /\ text = TrailingPCorpus) =>
        /\ extract_or_pvals(text) = << [rsid |-> <<"r", "s", "1", "2", "3">>, OR |-> <<"0", ".", "5">>, P |-> <<"0", ".", "2">>] >>
        /\ row["p-value"] = <<"r", "s", "1", "2", "3", " ", Arrow, " ", "0", ".", "2">>
        /\ row["Effect Direction"] = <<"r", "s", "1", "2", "3", " ", Arrow, " ", "N", "o", " ", "s", "i", "g", "n", "i", "f", "i", "c", "a", "n", "t", " ", "e", "f", "f", "e", "c", "t", " ", "(", "n", "s", ")">>

\* C13, what the code returns for that corpus: the entry has no p-value, and the
\* effect line is the marker of the odds ratio
C13_TrailingPDropped ==
    /\ Parsed /\ text = TrailingPCorpus
    /\ extract_or_pvals(text) = << [rsid |-> <<"r", "s", "1", "2", "3">>, OR |-> <<"0", ".", "5">>, P |-> None] >>
    /\ row["Reported Association"] = <<"r", "s", "1", "2", "3", " ", "(", "O", "R", "=", "0", ".", "5", ")", " ", "P", "=">>
    /\ row["p-value"] = <<"r", "s", "1", "2", "3", " ", Arrow, " ">>
    /\ row["Effect Direction"] = <<"r", "s", "1", "2", "3", " ", Arrow, " ", "R", "i", "s", "k", " ", DownArrow>>
(***************************************************************************)
(* The application: permission check, App and its handlers                 *)
(***************************************************************************)
\* what check_application_status finds: whether 8.8.8.8 can be reached, and the
\* text of the status page, None when the request for it raises
StatusPages == {
    <<" ", "s", "t", "a", "t", "u", "s", ":", "O", "N", "\n">>,
    <<"S", "t", "a", "t", "u", "s", ":", " ", "O", "F", "F">>,
    <<"S", "t", "a", "t", "u", "s", ":", " ", "O", "F", "F", " ", "(", "n", "o", "t", " ", "S", "t", "a", "t", "u", "s", ":", " ", "O", "N", ")">>,
    <<"S", "t", "a", "t", "u", "s", " ", "O", "N">> }
StatusEnvs ==
    {[internet |-> FALSE, readme |-> None], [internet |-> TRUE, readme |-> None]}
    \cup {[internet |-> TRUE, readme |-> c] : c \in StatusPages}

check_internet_connection(env) == env.internet

\* re.search(r'Status:\s*<word>', content, re.IGNORECASE)
StatusSearch(word, content) ==
    \E i \in 1..Len(content) :
        /\ MatchAtI(<<"S", "t", "a", "t", "u", "s", ":">>, content, i)
        /\ MatchAtI(word, content, SpaceRunEnd(content, i + Len(<<"S", "t", "a", "t", "u", "s", ":">>)) + 1)

check_application_status(env) ==
    IF ~check_internet_connection(env) THEN [is_enabled |-> FALSE, status_type |-> "internet"]
    ELSE IF env.readme = None THEN [is_enabled |-> FALSE, status_type |-> "unreachable"]
    ELSE LET content == Strip(env.readme)
         IN  IF StatusSearch(<<"O", "N">>, content)
             THEN [is_enabled |-> TRUE, status_type |-> "enabled"]
             ELSE IF StatusSearch(<<"O", "F", "F">>, content)
             THEN [is_enabled |-> FALSE, status_type |-> "disabled"]
             ELSE [is_enabled |-> FALSE, status_type |-> "disabled"]

\* the message boxes show_permission_dialog shows
show_permission_dialog(status_type) ==
    IF status_type = "internet" THEN <<"showerror: No Internet Connection">>
    ELSE IF status_type \in {"disabled", "unreachable"}
    THEN <<"showerror: Permission Required">>
    ELSE <<>>

\* a page whose <title> has no text and that has no other title hint
UntitledSoup ==
    [meta_name |-> NoMetaTags, meta_property |-> NoMetaTags, title |-> TitleTag(None),
     text |-> <<>>, authors |-> <<>>, candidate |-> None, anchors |-> <<>>]

\* the pages of the web: url -> what extract_basic_metadata and get_abstract_text
\* return for the page
Pages ==
    (<<"u", "1">> :> [meta |-> FullMeta, abstract |-> <<"H", "N", "F", "4", "A", " ", "(", "r", "s", "7", "4", "5", "9", "7", "5", ")">>])
    @@ (<<"u", "2">> :> [meta |-> EmptyMeta, abstract |-> <<"n", "=", "4", "5", "0", " ", "p", "a", "r", "t", "i", "c", "i", "p", "a", "n", "t", "s">>])
    @@ (<<"u", "3">> :> [meta |-> extract_basic_metadata(UntitledSoup), abstract |-> <<>>])

\* the rows lines 335-434 of parse_article can return for a page, none when
\* extract_basic_metadata raises
PageRows(page) ==
    LET Of(big) == {RowOf(page.meta, big, tie_up) : tie_up \in BOOLEAN}
    IN  IF "raised" \in DOMAIN page.meta THEN {}
        ELSE Of(Big(page.meta, page.abstract, page_text))
ParsedRows == [u \in DOMAIN Pages |-> PageRows(Pages[u])]

\* parse_article(url): the rows it can return, none when it raises: fetch_html
\* because the url names no page or the network fails, extract_basic_metadata
\* because of the page
parse_article(url, network_ok) ==
    IF network_ok /\ url \in DOMAIN Pages THEN ParsedRows[url] ELSE {}

\* what the user can type into the URL entry
UrlInputs == {<<>>, <<" ", "u", "1", " ">>, <<"u", "2">>, <<"u", "3">>, <<"x">>}

\* the paths the file dialog can return
Paths == {<<"a", ".", "x", "l", "s", "x">>}

\* a cell of a worksheet that holds nothing, and the value pandas reads from it
Blank == <<"blank", "cell">>
NaN == <<"NaN", "float">>
\* to_excel writes the empty string and NaN as a cell that holds nothing;
\* read_excel reads such a cell as NaN
WriteCell(v) == IF v = <<>> \/ v = NaN THEN Blank ELSE v
ReadCell(c) == IF c = Blank THEN NaN ELSE c

\* files: a worksheet with a header row and data rows, or no file
NoFile == [exists |-> FALSE, cols |-> <<>>, rows |-> <<>>]
Sheet(cols, rows) == [exists |-> TRUE, cols |-> cols, rows |-> rows]
OldRow(cols) ==
    [c \in Range(cols) |-> IF c = "Title" THEN <<"O", "l", "d">>
                           ELSE IF c = "Notes" THEN <<"k", "e", "e", "p">>
                           ELSE Blank]
InitialFiles == {
    NoFile,
    Sheet(DEFAULT_COLS, <<OldRow(DEFAULT_COLS)>>),
    Sheet(<<"Title", "Gene">>, <<OldRow(<<"Title", "Gene">>)>>),
    Sheet(DEFAULT_COLS \o <<"Notes">>, <<OldRow(DEFAULT_COLS \o <<"Notes">>)>>) }

\* pd.DataFrame([row], columns=DEFAULT_COLS)
DataFrame(rows, cols) ==
    [cols |-> cols, rows |-> [i \in 1..Len(rows) |-> [c \in Range(cols) |-> rows[i][c]]]]

\* pd.read_excel(path): the frame of the sheet; when it raises, on_extract takes
\* pd.DataFrame(columns=DEFAULT_COLS)
read_excel(file) ==
    [cols |-> file.cols,
     rows |-> [i \in 1..Len(file.rows) |->
                  [c \in Range(file.cols) |-> ReadCell(file.rows[i][c])]]]

\* for c in DEFAULT_COLS: if c not in df_exist.columns: df_exist[c] = ''
AddMissingCols(df) ==
    LET missing == SelectSeq(DEFAULT_COLS, LAMBDA c : c \notin Range(df.cols))
    IN  [cols |-> df.cols \o missing,
         rows |-> [i \in 1..Len(df.rows) |->
                      [c \in Range(df.cols \o missing) |->
                          IF c \in Range(df.cols) THEN df.rows[i][c] ELSE <<>>]]]

\* pd.concat([df_exist, df_new], ignore_index=True, sort=False)[DEFAULT_COLS]
ConcatDefaultCols(df_exist, df_new) ==
    DataFrame(df_exist.rows \o df_new.rows, DEFAULT_COLS)

\* df.to_excel(path, index=False): the sheet that replaces the file
to_excel(df) ==
    Sheet(df.cols, [i \in 1..Len(df.rows) |->
                       [c \in Range(df.cols) |-> WriteCell(df.rows[i][c])]])

\* lines 601-611 of on_extract: the frame that is written
Combined(file, read_ok, new_row) ==
    LET df_new == DataFrame(<<new_row>>, DEFAULT_COLS)
        df_exist == IF read_ok THEN read_excel(file) ELSE DataFrame(<<>>, DEFAULT_COLS)
    IN  IF file.exists THEN ConcatDefaultCols(AddMissingCols(df_exist), df_new)
        ELSE df_new

Init ==
    /\ started = FALSE /\ app_enabled = FALSE /\ excel_path = None /\ url_var = <<>>
    /\ status = <<>> /\ log = <<>> /\ appended = <<>>
    /\ files \in [Paths -> InitialFiles]
    /\ file0 = files
    /\ startup_env = NotChecked /\ checked_env = NotChecked
    /\ pc = {}
    /\ IdleText /\ IdleRow /\ IdleHeur /\ IdleEffect

\* App.__init__ with check_permissions_on_startup, as main runs it
App_init ==
    /\ ~started
    /\ \E env \in StatusEnvs : \E st \in {check_application_status(env)} :
           /\ app_enabled' = st.is_enabled
           /\ startup_env' = env
           /\ log' = <<"check_application_status: " \o st.status_type>>
                     \o (IF st.is_enabled THEN <<>>
                         ELSE show_permission_dialog(st.status_type))
    /\ started' = TRUE
    /\ url_var' = <<>> /\ excel_path' = None /\ status' = <<>>
    /\ UNCHANGED <<textVars, pc, rowVars, heurVars, effectVars, files, file0, appended,
                   checked_env>>

\* the user edits the URL entry
TypeUrl ==
    /\ started
    /\ \E u \in UrlInputs : url_var' = u
    /\ UNCHANGED <<textVars, pc, rowVars, heurVars, effectVars,
                   started, app_enabled, excel_path, status, files, log, file0, appended,
                   startup_env, checked_env>>

\* App.choose_file; the dialog returns a path, or nothing when it is cancelled
choose_file ==
    /\ started
    /\ IF ~app_enabled
       THEN /\ log' = show_permission_dialog("disabled")
            /\ UNCHANGED excel_path
       ELSE \E f \in Paths \cup {<<>>} :
                /\ excel_path' = IF f # <<>> THEN f ELSE excel_path
                /\ log' = <<"asksaveasfilename">>
    /\ UNCHANGED <<textVars, pc, rowVars, heurVars, effectVars,
                   started, app_enabled, url_var, status, files, file0, appended,
                   startup_env, checked_env>>

\* a return of on_extract that leaves the files alone
Return(events, new_status) ==
    /\ log' = events
    /\ status' = new_status
    /\ UNCHANGED <<files, appended>>

\* lines 601-619 of on_extract: the row is appended and the file written, after
\* the events before
Save(before, file, read_ok, write_ok, new_row) ==
    IF write_ok
    THEN /\ files' = [files EXCEPT ![excel_path] = to_excel(Combined(file, read_ok, new_row))]
         /\ appended' = Append(appended, new_row)
         /\ status' = <<"S", "a", "v", "e", "d", "/", "a", "p", "p", "e", "n", "d", "e", "d">>
         /\ log' = before \o <<"to_excel: returned", "showinfo: Done">>
    ELSE Return(before \o <<"to_excel: raised", "showerror: Failed to save Excel file">>,
                <<"S", "a", "v", "e", " ", "f", "a", "i", "l", "e", "d">>)

\* the events of reading the file at excel_path
Reads(file, read_ok) ==
    IF ~file.exists THEN <<>>
    ELSE IF read_ok THEN <<"read_excel: returned">>
    ELSE <<"read_excel: raised">>

\* Mutation of ParseFailed: the handler goes on to write the file after it has
\* reported the failure, as it would without the return of line 600
ParseFailedThenSaved(checked) ==
    /\ files' = [files EXCEPT ![excel_path] = to_excel(DataFrame(<<>>, DEFAULT_COLS))]
    /\ log' = checked \o <<"parse_article: raised", "showerror: Failed to fetch/parse URL",
                           "to_excel: returned", "showinfo: Done">>
    /\ status' = <<"S", "a", "v", "e", "d", "/", "a", "p", "p", "e", "n", "d", "e", "d">>
    /\ UNCHANGED appended

\* lines 597-600 of on_extract: parse_article has raised
ParseFailed(checked) ==
    Return(checked \o <<"parse_article: raised", "showerror: Failed to fetch/parse URL">>,
           <<"F", "a", "i", "l", "e", "d">>)

\* lines 595-619 of on_extract: parse_article raises or returns one of rows; the
\* file, when it exists, can be read or not, and the write succeeds or not
Parse(checked, rows) ==
    IF rows = {}
    THEN ParseFailed(checked)
    ELSE \E new_row \in rows, file \in {files[excel_path]}, write_ok \in BOOLEAN :
         \E read_ok \in IF file.exists THEN BOOLEAN ELSE {TRUE} :
             Save(checked \o <<"parse_article: returned">> \o Reads(file, read_ok),
                  file, read_ok, write_ok, new_row)

\* on_extract from the status st found; the network works or fails
Extract(st, checked, url) ==
    IF ~app_enabled
    THEN Return(show_permission_dialog("disabled"), status)
    ELSE IF ~st.is_enabled
    THEN Return(checked \o show_permission_dialog(st.status_type), status)
    ELSE IF url = <<>>
    THEN Return(checked \o <<"showerror: Paste article URL first.">>, status)
    ELSE IF excel_path = None
    THEN Return(checked \o <<"showerror: Choose or create an Excel file first.">>, status)
    ELSE \E network_ok \in BOOLEAN : Parse(checked, parse_article(url, network_ok))

\* App.on_extract
on_extract ==
    /\ started
    /\ Len(appended) < MaxAppends
    /\ \E env \in StatusEnvs :
       \E st \in {check_application_status(env)}, url \in {Strip(url_var)} :
           /\ checked_env' = IF app_enabled THEN env ELSE NotChecked
           /\ Extract(st, <<"check_application_status: " \o st.status_type>>, url)
    /\ UNCHANGED <<textVars, pc, rowVars, heurVars, effectVars,
                   started, app_enabled, excel_path, url_var, file0, startup_env>>

Next == App_init \/ TypeUrl \/ choose_file \/ on_extract
Spec == Init /\ [][Next]_vars

(***************************************************************************)
(* Properties of the application (specification Spec)                      *)
(***************************************************************************)
\* a row of the file as it was at start is still there: its cells are what they
\* were, and the cells of columns the file did not have hold nothing
RowKept(old, old_cols, now) ==
    /\ \A c \in Range(old_cols) : c \in DOMAIN now /\ now[c] = old[c]
    /\ \A c \in DOMAIN now \ Range(old_cols) : now[c] = Blank

\* a row as to_excel stores it
Stored(r) == [c \in DOMAIN r |-> WriteCell(r[c])]

\* C9: after any sequence of successful "Extract & Append" operations on the
\* chosen file, a file that existed at start holds every row it held at start,
\* unchanged and in the same order, followed by one new row per operation in
\* operation order, also when it has columns missing from or additional to the
\* default columns and when it cannot be read back.  The code does not do this.
C9_ExistingRowsKept ==
    \A p \in Paths :
        file0[p].exists =>
            LET n0 == Len(file0[p].rows)
            IN  /\ Len(files[p].rows) = n0 + Len(appended)
                /\ \A i \in 1..n0 : RowKept(file0[p].rows[i], file0[p].cols, files[p].rows[i])
                /\ \A j \in 1..Len(appended) : files[p].rows[n0 + j] = Stored(appended[j])

\* C9, what the code does to a file with an additional column: after one append
\* the column is gone, and with it the cell the old row had there
C9_ExtraColumnDropped ==
    \E p \in Paths :
        /\ file0[p].exists /\ "Notes" \in Range(file0[p].cols)
        /\ Len(appended) = 1
        /\ Len(files[p].rows) = 2
        /\ "Notes" \notin DOMAIN files[p].rows[1]


\* the events of the log: the error dialogs, the calls of parse_article and the
\* accesses to the file
ErrorDialogs == {"showerror: No Internet Connection", "showerror: Permission Required",
                 "showerror: Paste article URL first.",
                 "showerror: Choose or create an Excel file first.",
                 "showerror: Failed to fetch/parse URL",
                 "showerror: Failed to save Excel file"}
ParseCalls == {"parse_article: raised", "parse_article: returned"}
FileAccesses == {"read_excel: returned", "read_excel: raised",
                 "to_excel: returned", "to_excel: raised"}
CountIn(events, kind) == Cardinality({i \in 1..Len(events) : events[i] \in kind})

\* C12: when parse_article fails, on_extract reports exactly one failure to the
\* user, calls parse_article once, and leaves the chosen file untouched: it is
\* neither created, read nor written, and no row is appended.
C12_ParseFailureLeavesFile ==
    [][("parse_article: raised" \in Range(log')) =>
          /\ CountIn(log', ErrorDialogs) = 1
          /\ CountIn(log', ParseCalls) = 1
          /\ CountIn(log', FileAccesses) = 0
          /\ "showinfo: Done" \notin Range(log')
          /\ files' = files
          /\ appended' = appended]_vars

\* C12 happens: a failure after a successful append to an existing file, which
\* still holds its rows and the one appended
C12_FailureAfterAppend ==
    /\ "parse_article: raised" \in Range(log)
    /\ status = <<"F", "a", "i", "l", "e", "d">>
    /\ Len(appended) = 1
    /\ \E p \in Paths : file0[p].exists /\ Len(files[p].rows) = Len(file0[p].rows) + 1

\* the latest handler call has fetched an article or written to the chosen file
FetchedOrWrote ==
    CountIn(log, ParseCalls) > 0 \/ CountIn(log, {"to_excel: returned", "to_excel: raised"}) > 0

\* what a status check found counts as enabled: there is an internet connection,
\* the status page can be reached, it contains "Status: ON" and does not say OFF
SaysOn(env) == StatusSearch(<<"O", "N">>, Strip(env.readme))
SaysOff(env) == StatusSearch(<<"O", "F", "F">>, Strip(env.readme))
CountsAsEnabled(env) == env.internet /\ env.readme # None /\ SaysOn(env) /\ ~SaysOff(env)

\* the gate as the code keeps it: an article is fetched and the file written only
\* in a call of on_extract for which check_application_status returned enabled
\* both at startup and in that call
GatedByBothChecks ==
    FetchedOrWrote =>
        /\ check_application_status(startup_env).is_enabled
        /\ check_application_status(checked_env).is_enabled

\* C14: in every run, parse_article and the write to the chosen file happen only
\* inside an on_extract call for which the startup status check and the status
\* check repeated in that call both found the application enabled, where a
\* missing internet connection and a status page that is unreachable, says OFF,
\* or contains neither "Status: ON" nor "Status: OFF" count as not enabled.  The
\* code does not do this for a page that says OFF.
C14_OnlyWhenEnabled ==
    FetchedOrWrote => CountsAsEnabled(startup_env) /\ CountsAsEnabled(checked_env)

\* C14, what the code does: the status page says OFF and mentions "Status: ON"
\* further on; line 62 looks for ON first, both checks return enabled, and the
\* article is fetched and the file written
C14_EnabledByPageThatSaysOff ==
    /\ startup_env.readme = <<"S", "t", "a", "t", "u", "s", ":", " ", "O", "F", "F", " ", "(", "n", "o", "t", " ", "S", "t", "a", "t", "u", "s", ":", " ", "O", "N", ")">>
    /\ checked_env.readme = <<"S", "t", "a", "t", "u", "s", ":", " ", "O", "F", "F", " ", "(", "n", "o", "t", " ", "S", "t", "a", "t", "u", "s", ":", " ", "O", "N", ")">>
    /\ "check_application_status: enabled" \in Range(log)
    /\ "parse_article: returned" \in Range(log)
    /\ "to_excel: returned" \in Range(log)
====
